---- MODULE Spec2Model ----
(***************************************************************************)
(* A model of spectra-watch: the fragment highlighter                      *)
(* (internal/highlight), the rule engine (internal/rules), the pipeline    *)
(* stage (internal/pipeline) and the multi-file tailer (internal/watch).   *)
(*                                                                         *)
(* A line is a sequence of one-character strings; a byte offset k of the   *)
(* Go string is position k+1 of the sequence, so line[a:b] is              *)
(* SubSeq(line, a+1, b).                                                   *)
(***************************************************************************)
EXTENDS Integers, Sequences, FiniteSets, TLC

VARIABLES
    \* BuildFragments, one call: its arguments, the spans as sorted, the loop
    \* index, the loop state (fragments, cursor), the position and the result.
    hlLine, hlSpans, hlSorted, hlIdx, hlSt, hlPc, hlResult,
    \* The rule engine: the definitions given to Compile, the RuleSet in use,
    \* whether FilterByTags was applied and with which tags, the line and the
    \* result of the last Match, and what happened last.
    rmDefs, rmRules, rmFiltered, rmTags, rmLine, rmResult, rmPc,
    rmCompiled,   \* what Compile(rmDefs) returned: RuleSet and error
    rmSorted,     \* what sortedRules returned for the RuleSet in use
    \* The pipeline stage on one event: the Stream, the event received, the
    \* events sent for it, and whether an event was processed.
    ppStream, ppEvt, ppOut, ppPc,
    \* TailFiles and Connect running together.
    stream,       \* the Stream that Connect was called on
    cancelled,    \* ctx.Done() is closed
    tailLog,      \* per path, the lines tails.Lines has delivered, in file order
    linesClosed,  \* per path, the tail library has closed tails.Lines
    srcPc,        \* per path, the source goroutine: "none" (not started),
                  \* "select", "send", "deferred" (returned, one deferred call
                  \* has run), "done"
    srcEvt,       \* per path, the LogEvent the goroutine is sending
    cleanups,     \* per path, the number of tails.Cleanup() calls
    wg,           \* the WaitGroup counter
    closerPc,     \* the closing goroutine: "none" (not started), "wait", "done"
    tfOutClosed,  \* the number of close(out) in TailFiles
    pipePc,       \* the goroutine of Connect: "none" (Connect not called),
                  \* "select", "send", "done"
    pipeEvt,      \* the HighlightedEvent it is sending
    cnOutClosed,  \* the number of close(out) in Connect
    received,     \* the number of LogEvents Connect has received
    dropped,      \* the number of them it has passed over with `continue`
    delivered,    \* the HighlightedEvents the consumer has received, in order
    \* The call of TailFiles itself.
    tfFiles,      \* the argument files
    tfExists,     \* the paths that exist on disk
    tfIdx,        \* the position of `for _, file := range files`
    tfPc,         \* "call", "loop", "returned" (the channel), "error" (nil, err)
    tfErr,        \* the error returned, NoError for nil
    tfRet,        \* the channel returned: "out", or "nil"
    \* The Controller with its tail sources, the rule swap, and the UI model,
    \* each as the record of its fields.
    ctl, swap, ui,
    \* The slices behind RuleSets, and the goroutines calling Match and
    \* FilterByTags on them.
    mem

hlVars == <<hlLine, hlSpans, hlSorted, hlIdx, hlSt, hlPc, hlResult>>
rmVars == <<rmDefs, rmRules, rmFiltered, rmTags, rmLine, rmResult, rmPc, rmCompiled,
            rmSorted>>
ppVars == <<ppStream, ppEvt, ppOut, ppPc>>
callVars == <<tfFiles, tfExists, tfIdx, tfPc, tfErr, tfRet>>
tfVars == <<stream, cancelled, tailLog, linesClosed, srcPc, srcEvt, cleanups, wg,
            closerPc, tfOutClosed, pipePc, pipeEvt, cnOutClosed, received, dropped,
            delivered, callVars>>
extVars == <<ctl, swap, ui, mem>>
vars == <<hlVars, rmVars, ppVars, tfVars, extVars>>

\* ------------------------------------------------------------------ bounds
MaxLineLen == 2
MaxSpans == 2
MaxRules == 2
MaxReads == 3
MaxApplies == 3
MaxEmits == 1
MaxSwaps == 1
MaxScrollback == 2
MaxEvents == 4
MaxFiltered == 1
MaxNavScrollback == 3
MaxNavEvents == 4
MaxHeight == 2

Alphabet == {"a", "b"}

\* All lines of at most MaxLineLen characters.
Lines == UNION {[1..n -> Alphabet] : n \in 0..MaxLineLen}

\* Span coordinates reach one below 0 and one above the longest line, so that
\* both clamps of BuildFragments act.
SpanCoords == (0 - 1)..(MaxLineLen + 1)
SpanPairs == {<<s, e>> : s \in SpanCoords, e \in SpanCoords}
SpanLists == UNION {[1..n -> SpanPairs] : n \in 0..MaxSpans}

\* ------------------------------------------------------- internal/highlight

\* line[a:b] of Go, for 0 <= a <= b <= len(line).
Slice(line, a, b) == SubSeq(line, a + 1, b)

clamp(val, min, max) ==
    IF val < min THEN min
    ELSE IF val > max THEN max
    ELSE val

\* Mutant of appendFragment: a fragment is never merged into the last one.
appendFragmentNoMerge(list, frag) ==
    IF frag.Text = <<>> THEN list ELSE Append(list, frag)

\* appendFragment: an empty text is skipped, a fragment with the emphasis flag
\* of the last one is merged into it.
appendFragment(list, frag) ==
    IF frag.Text = <<>> THEN list
    ELSE IF Len(list) > 0 /\ list[Len(list)].Emphasized = frag.Emphasized
         THEN [list EXCEPT ![Len(list)].Text = @ \o frag.Text]
         ELSE Append(list, frag)

\* The orders sort.Slice may leave the spans in: every permutation that is
\* ascending by start (sort.Slice is not stable, equal starts may swap).
SortedByStart(spans) ==
    LET n == Len(spans)
        perms == {p \in [1..n -> 1..n] : \A i, j \in 1..n : i # j => p[i] # p[j]}
    IN {[i \in 1..n |-> spans[p[i]]] : p \in
          {q \in perms : \A i, j \in 1..n : i < j => spans[q[i]][1] <= spans[q[j]][1]}}

\* The cursor after one iteration of the loop of BuildFragments.
SpanCursor(line, cursor, span) == clamp(span[2], 0, Len(line))

\* One iteration of the loop of BuildFragments: the state is the fragment list
\* and the cursor.
SpanStep(line, st, span) ==
    LET start == clamp(span[1], 0, Len(line))
        end == clamp(span[2], 0, Len(line))
        \* line[cursor:start] with start > cursor
        f1 == IF start > st.cursor
              THEN appendFragment(st.fragments,
                     [Text |-> Slice(line, st.cursor, start), Emphasized |-> FALSE])
              ELSE st.fragments
        f2 == IF end > start
              THEN appendFragment(f1, [Text |-> Slice(line, start, end), Emphasized |-> TRUE])
              ELSE f1
    IN [fragments |-> f2, cursor |-> SpanCursor(line, st.cursor, span)]

\* The trailing plain fragment after the loop.
TailStep(line, st) ==
    IF st.cursor < Len(line)
    THEN appendFragment(st.fragments,
           [Text |-> Slice(line, st.cursor, Len(line)), Emphasized |-> FALSE])
    ELSE st.fragments

RECURSIVE ScanSpans(_, _, _, _)
ScanSpans(line, st, sorted, i) ==
    IF i > Len(sorted) THEN st
    ELSE ScanSpans(line, SpanStep(line, st, sorted[i]), sorted, i + 1)

\* BuildFragments after the sort: `sorted` is the span list as sort.Slice left it.
BuildSorted(line, sorted) ==
    IF Len(sorted) = 0
    THEN <<[Text |-> line, Emphasized |-> FALSE]>>
    ELSE TailStep(line, ScanSpans(line, [fragments |-> <<>>, cursor |-> 0], sorted, 1))

\* The results BuildFragments(line, spans) can return.
BuildFragments(line, spans) == {BuildSorted(line, s) : s \in SortedByStart(spans)}

\* String: the concatenation of the fragments' text.
RECURSIVE String(_)
String(frags) ==
    IF Len(frags) = 0 THEN <<>>
    ELSE frags[1].Text \o String(Tail(frags))

\* ----------------------------------------------------------- internal/rules

SeverityCritical == "critical"
SeverityHigh == "high"
SeverityMedium == "medium"
SeverityLow == "low"
SeverityNormal == "normal"

orderedSeverities ==
    <<SeverityCritical, SeverityHigh, SeverityMedium, SeverityLow, SeverityNormal>>

Severities == {orderedSeverities[i] : i \in 1..Len(orderedSeverities)}

\* SeverityRank: the index in orderedSeverities, len(orderedSeverities) for a
\* string that is not one of them.
SeverityRank(s) ==
    IF \E i \in 1..Len(orderedSeverities) : orderedSeverities[i] = s
    THEN (CHOOSE i \in 1..Len(orderedSeverities) : orderedSeverities[i] = s) - 1
    ELSE Len(orderedSeverities)

severityScore(s) == SeverityRank(s)

\* Mutant of MeetsThreshold: strictly more urgent than min.
MeetsThresholdStrict(value, min) == SeverityRank(value) < SeverityRank(min)

MeetsThreshold(value, min) == SeverityRank(value) <= SeverityRank(min)

\* strings.ToLower on the strings of the model that hold an upper-case letter.
UpperToLower ==
    ("HIGH" :> "high") @@ ("Critical" :> "critical") @@ ("SSH" :> "ssh") @@ ("Net" :> "net")

ToLower(s) == IF s \in DOMAIN UpperToLower THEN UpperToLower[s] ELSE s

\* Mutant of normalizeSeverity: the string is compared as written.
normalizeSeverityExact(s) ==
    IF s = "critical" THEN SeverityCritical
    ELSE IF s = "high" THEN SeverityHigh
    ELSE IF s \in {"medium", "", "med"} THEN SeverityMedium
    ELSE IF s = "low" THEN SeverityLow
    ELSE IF s = "normal" THEN SeverityNormal
    ELSE SeverityMedium

normalizeSeverity(s) ==
    LET l == ToLower(s)
    IN IF l = "critical" THEN SeverityCritical
       ELSE IF l = "high" THEN SeverityHigh
       ELSE IF l \in {"medium", "", "med"} THEN SeverityMedium
       ELSE IF l = "low" THEN SeverityLow
       ELSE IF l = "normal" THEN SeverityNormal
       ELSE SeverityMedium

\* A pattern is a regular expression of one of four shapes: a literal text
\* (kind "lit"; the empty text is the empty pattern ""), one character under a
\* star (kind "star", `c*`, which also matches the empty string), any one
\* character in a named group (kind "any", `(?P<ch>.)`), or a text that is no
\* valid expression (kind "bad", an unclosed parenthesis).
PatternValid(pat) == pat.kind \in {"lit", "star", "any"}

\* The end offset of the match of pat that starts at offset i of line, or -1
\* when pat does not match there (regexp: leftmost match, the star is greedy).
RECURSIVE RunEnd(_, _, _)
RunEnd(c, line, i) ==
    IF i < Len(line) /\ line[i + 1] = c THEN RunEnd(c, line, i + 1) ELSE i

MatchEndAt(pat, line, i) ==
    IF pat.kind = "star" THEN RunEnd(pat.text[1], line, i)
    ELSE IF pat.kind = "any" THEN (IF i < Len(line) THEN i + 1 ELSE 0 - 1)
    ELSE IF i + Len(pat.text) <= Len(line) /\ Slice(line, i, i + Len(pat.text)) = pat.text
         THEN i + Len(pat.text)
         ELSE 0 - 1

\* The leftmost match at or after offset pos: <<start, end>>, or <<>>.
RECURSIVE FirstMatchFrom(_, _, _)
FirstMatchFrom(pat, line, pos) ==
    IF pos > Len(line) THEN <<>>
    ELSE IF MatchEndAt(pat, line, pos) >= 0 THEN <<pos, MatchEndAt(pat, line, pos)>>
    ELSE FirstMatchFrom(pat, line, pos + 1)

\* regexp's loop over all matches: the search restarts at the end of the last
\* match, one character further after an empty match, and an empty match that
\* abuts the preceding match is not delivered.
RECURSIVE AllMatches(_, _, _, _)
AllMatches(pat, line, pos, prevMatchEnd) ==
    IF pos > Len(line) THEN <<>>
    ELSE LET m == FirstMatchFrom(pat, line, pos)
         IN IF m = <<>> THEN <<>>
            ELSE LET empty == m[2] = pos
                     accept == ~(empty /\ m[1] = prevMatchEnd)
                     next == IF empty THEN pos + 1 ELSE m[2]
                     rest == AllMatches(pat, line, next, m[2])
                 IN IF accept THEN <<m>> \o rest ELSE rest

\* rule.regex.FindAllStringIndex(line, -1)
FindAllStringIndex(pat, line) == AllMatches(pat, line, 0, 0 - 1)

\* re.SubexpNames(): the name of the whole expression, "", and of each group.
SubexpNames(pat) == IF pat.kind = "any" THEN <<"", "ch">> ELSE <<"">>

\* The text of the whole match m and of each group.
Submatch(pat, line, m) ==
    IF m = <<>> THEN <<>>
    ELSE IF pat.kind = "any"
         THEN <<Slice(line, m[1], m[2]), Slice(line, m[1], m[2])>>
         ELSE <<Slice(line, m[1], m[2])>>

\* Mutant of FindStringSubmatch: the last match of the line is taken.
FindStringSubmatchLast(pat, line) ==
    LET locs == FindAllStringIndex(pat, line)
    IN Submatch(pat, line, IF Len(locs) = 0 THEN <<>> ELSE locs[Len(locs)])

\* re.FindStringSubmatch(line): the leftmost match.
FindStringSubmatch(pat, line) == Submatch(pat, line, FirstMatchFrom(pat, line, 0))

\* captureMap: the text of every named group of the match, by name; nil (no
\* entry) without a match. A map is the set of its entries.
captureMap(pat, line) ==
    LET names == SubexpNames(pat)
        matches == FindStringSubmatch(pat, line)
    IN IF Len(matches) = 0 THEN {}
       ELSE {[name |-> names[i], text |-> matches[i]] :
                i \in {j \in 1..Len(names) : j # 1 /\ names[j] # ""}}

\* Mutant of toPairs: the two numbers of a location change places.
toPairsSwapped(locs) == [i \in 1..Len(locs) |-> <<locs[i][2], locs[i][1]>>]

\* toPairs keeps every location of two numbers, which all of them are.
toPairs(locs) == locs

\* The rule Compile appends for def when len(compiled) is n.
CompileRule(def, n) ==
    [Name |-> def.Name, Pattern |-> def.Pattern,
     Severity |-> normalizeSeverity(def.Severity),
     Color |-> def.Color, Tags |-> def.Tags, order |-> n]

\* Mutant of CompileError: the rules compiled so far are returned with the error.
CompileErrorPartial(msg, def, compiled) ==
    [ok |-> FALSE, errMsg |-> msg, errName |-> def.Name, Rules |-> compiled]

\* return RuleSet{}, fmt.Errorf(msg, def.Name)
CompileError(msg, def, compiled) ==
    [ok |-> FALSE, errMsg |-> msg, errName |-> def.Name, Rules |-> <<>>]

\* The loop of Compile from definition i on, `compiled` holding the rules of
\* the definitions before it.
RECURSIVE CompileFrom(_, _, _)
CompileFrom(defs, i, compiled) ==
    IF i > Len(defs)
    THEN [ok |-> TRUE, errMsg |-> "", errName |-> "", Rules |-> compiled]
    ELSE IF defs[i].Pattern.text = <<>>
         THEN CompileError("missing pattern", defs[i], compiled)
         ELSE IF ~PatternValid(defs[i].Pattern)
              THEN CompileError("compile", defs[i], compiled)
              ELSE CompileFrom(defs, i + 1,
                               Append(compiled, CompileRule(defs[i], Len(compiled))))

Compile(defs) == CompileFrom(defs, 1, <<>>)

\* Mutants of RuleLess: declaration order alone; ties to the later
\* declaration; severity alone.
RuleLessByOrder(a, b) == a.order < b.order

RuleLessBySeverity(a, b) == severityScore(a.Severity) < severityScore(b.Severity)

RuleLessTieLast(a, b) ==
    IF severityScore(a.Severity) = severityScore(b.Severity)
    THEN a.order > b.order
    ELSE severityScore(a.Severity) < severityScore(b.Severity)

\* The comparison of sortedRules: severity score, then declaration order.
RuleLess(a, b) ==
    IF severityScore(a.Severity) = severityScore(b.Severity)
    THEN a.order < b.order
    ELSE severityScore(a.Severity) < severityScore(b.Severity)

\* sort.SliceStable: x goes before the first element it is less than.
RECURSIVE InsertStable(_, _)
InsertStable(sorted, x) ==
    IF Len(sorted) = 0 THEN <<x>>
    ELSE IF RuleLess(x, sorted[Len(sorted)])
         THEN Append(InsertStable(SubSeq(sorted, 1, Len(sorted) - 1), x), sorted[Len(sorted)])
         ELSE Append(sorted, x)

RECURSIVE SliceStable(_)
SliceStable(rules) ==
    IF Len(rules) = 0 THEN <<>>
    ELSE InsertStable(SliceStable(SubSeq(rules, 1, Len(rules) - 1)), rules[Len(rules)])

\* sortedRules sorts a copy: the RuleSet keeps its stored order.
sortedRules(rs) == SliceStable(rs)

NoMatch == [matched |-> FALSE]

\* RuleSet.Match: the first rule of sortedRules with at least one location.
RECURSIVE MatchFrom(_, _, _)
MatchFrom(sorted, line, i) ==
    IF i > Len(sorted) THEN NoMatch
    ELSE LET locs == FindAllStringIndex(sorted[i].Pattern, line)
         IN IF Len(locs) = 0 THEN MatchFrom(sorted, line, i + 1)
            ELSE [matched |-> TRUE, Rule |-> sorted[i],
                  Captures |-> captureMap(sorted[i].Pattern, line),
                  HighlightSpans |-> toPairs(locs)]

Match(rs, line) ==
    IF Len(rs) = 0 THEN NoMatch
    ELSE MatchFrom(sortedRules(rs), line, 1)

\* RuleSet.FilterByTags: without a non-empty requested tag the set itself,
\* otherwise the rules with a tag whose lower case is selected, in stored order.
RuleSelected(rule, selected) ==
    \E k \in 1..Len(rule.Tags) : ToLower(rule.Tags[k]) \in selected

FilterByTags(rs, tags) ==
    LET selected == {ToLower(tags[k]) : k \in {j \in 1..Len(tags) : tags[j] # ""}}
    IN IF Len(tags) = 0 \/ selected = {} THEN rs
       ELSE SelectSeq(rs, LAMBDA rule : RuleSelected(rule, selected))

\* -------------------------------------------------------- internal/pipeline

\* The nil error, and the error a tail line can carry.
NilErr == "nil"
ReadErr == "read error"

\* watch.LogEvent{Path, Line} and watch.LogEvent{Path, Err}
LogEvent(path, line, err) == [Path |-> path, Line |-> line, Err |-> err]

\* Mutant of ErrorEvent: the error of the event is not copied.
ErrorEventNoErr(evt) ==
    [Path |-> evt.Path, Line |-> <<>>, RuleName |-> "", Severity |-> "", Color |-> "",
     Tags |-> <<>>, Fragments |-> <<>>, Err |-> NilErr]

\* pipeline.HighlightedEvent without its Timestamp (time.Now(), which nothing
\* reads back). Unset string fields are "", unset slices are empty.
ErrorEvent(evt) ==
    [Path |-> evt.Path, Line |-> <<>>, RuleName |-> "", Severity |-> "", Color |-> "",
     Tags |-> <<>>, Fragments |-> <<>>, Err |-> evt.Err]

MatchedEvent(evt, rule, frags) ==
    [Path |-> evt.Path, Line |-> evt.Line, RuleName |-> rule.Name,
     Severity |-> rule.Severity, Color |-> rule.Color, Tags |-> rule.Tags,
     Fragments |-> frags, Err |-> NilErr]

\* Mutant of UnmatchedEvent: the severity is left unset.
UnmatchedEventNoSeverity(evt) ==
    [Path |-> evt.Path, Line |-> evt.Line, RuleName |-> "", Severity |-> "",
     Color |-> "", Tags |-> <<>>,
     Fragments |-> <<[Text |-> evt.Line, Emphasized |-> FALSE]>>, Err |-> NilErr]

UnmatchedEvent(evt) ==
    [Path |-> evt.Path, Line |-> evt.Line, RuleName |-> "", Severity |-> SeverityNormal,
     Color |-> "", Tags |-> <<>>,
     Fragments |-> <<[Text |-> evt.Line, Emphasized |-> FALSE]>>, Err |-> NilErr]

\* Mutant of Process: an event with an error goes through the show-all filter
\* like an unmatched line.
ProcessErrFiltered(s, evt) ==
    IF evt.Err # NilErr
    THEN IF ~s.showAll THEN {<<>>} ELSE {<<ErrorEvent(evt)>>}
    ELSE LET m == Match(s.rules, evt.Line)
         IN IF m.matched
            THEN IF ~s.showAll /\ ~MeetsThreshold(m.Rule.Severity, s.minSeverity)
                 THEN {<<>>}
                 ELSE {<<MatchedEvent(evt, m.Rule, f)>> :
                         f \in BuildFragments(evt.Line, m.HighlightSpans)}
            ELSE IF ~s.showAll THEN {<<>>}
                 ELSE {<<UnmatchedEvent(evt)>>}

\* The body of the loop of Stream.Connect for one received event: the events
\* it sends on out, none (`continue`) or one. A set, for BuildFragments may
\* return more than one result.
Process(s, evt) ==
    IF evt.Err # NilErr THEN {<<ErrorEvent(evt)>>}
    ELSE LET m == Match(s.rules, evt.Line)
         IN IF m.matched
            THEN IF ~s.showAll /\ ~MeetsThreshold(m.Rule.Severity, s.minSeverity)
                 THEN {<<>>}
                 ELSE {<<MatchedEvent(evt, m.Rule, f)>> :
                         f \in BuildFragments(evt.Line, m.HighlightSpans)}
            ELSE IF ~s.showAll THEN {<<>>}
                 ELSE {<<UnmatchedEvent(evt)>>}

\* pipeline.New
New(rs, showAll, min) == [rules |-> rs, showAll |-> showAll, minSeverity |-> min]

\* ------------------------------------------------------ rule definitions

\* The patterns of the definitions: the literals a and ab.
Patterns ==
    {[kind |-> "lit", text |-> <<"a">>], [kind |-> "lit", text |-> <<"a", "b">>]}

\* The tag lists a definition may carry, and the tag lists FilterByTags is asked for.
TagLists == {<<>>, <<"SSH", "net">>}
TagRequests == {<<>>, <<"ssh">>, <<"", "audit">>, <<" ">>}

RuleNames == <<"r1", "r2", "r3", "r4">>
RuleColors == <<"#c1", "#c2", "#c3", "#c4">>

\* Definitions with a valid pattern; definition i carries name and color i.
ValidDefLists ==
    UNION {{[i \in 1..n |->
               [Name |-> RuleNames[i], Color |-> RuleColors[i], Pattern |-> f[i][1],
                Severity |-> f[i][2], Tags |-> f[i][3]]] :
             f \in [1..n -> Patterns \X Severities \X TagLists]} : n \in 0..MaxRules}

\* The rule sets of the pipeline stage: literals and b*, every severity; rule
\* i carries tag list i.
PipePatterns == Patterns \cup {[kind |-> "star", text |-> <<"b">>]}
RuleTags == <<<<"SSH", "net">>, <<>>, <<"Net">>, <<>>>>

PipeDefLists ==
    UNION {{[i \in 1..n |->
               [Name |-> RuleNames[i], Color |-> RuleColors[i], Pattern |-> f[i][1],
                Severity |-> f[i][2], Tags |-> RuleTags[i]]] :
             f \in [1..n -> PipePatterns \X Severities]} : n \in 0..MaxRules}

\* What a rule file can hold: besides valid patterns the empty pattern and an
\* invalid one, and severities as a person writes them.
FilePatterns ==
    {[kind |-> "lit", text |-> <<"a">>], [kind |-> "lit", text |-> <<>>],
     [kind |-> "bad", text |-> <<"(">>]}

SeverityStrings ==
    {"Critical", "HIGH", "medium", "med", "", "bogus", "low", "normal"}

FileDefLists ==
    UNION {{[i \in 1..n |->
               [Name |-> RuleNames[i], Color |-> RuleColors[i], Pattern |-> f[i][1],
                Severity |-> f[i][2], Tags |-> RuleTags[i]]] :
             f \in [1..n -> FilePatterns \X SeverityStrings]} : n \in 0..MaxRules}

Paths == {"f1", "f2"}

\* The error TailFiles returns: what it says and the file it names; nil.
TailError(msg, file) == [msg |-> msg, file |-> file]
NoError == TailError("nil", "")

\* The events a tail source can hand over: a line, or a read error.
LogEvents ==
    {LogEvent(p, l, NilErr) : p \in Paths, l \in Lines}
        \cup {LogEvent(p, <<>>, ReadErr) : p \in Paths}

\* The variables of the parts a specification does not use keep these values.
PpIdle ==
    /\ ppStream = New(<<>>, FALSE, SeverityMedium)
    /\ ppEvt = LogEvent("", <<>>, NilErr)
    /\ ppOut = <<>>
    /\ ppPc = "idle"

HlIdle ==
    /\ hlLine = <<>>
    /\ hlSpans = <<>>
    /\ hlSorted = <<>>
    /\ hlIdx = 1
    /\ hlSt = [fragments |-> <<>>, cursor |-> 0]
    /\ hlPc = "idle"
    /\ hlResult = <<>>

RmIdle ==
    /\ rmDefs = <<>>
    /\ rmRules = <<>>
    /\ rmFiltered = FALSE
    /\ rmTags = <<>>
    /\ rmLine = <<>>
    /\ rmResult = NoMatch
    /\ rmCompiled = Compile(<<>>)
    /\ rmSorted = <<>>
    /\ rmPc = "idle"

\* TailFiles right after wg.Add(len(files)) and the start of every goroutine,
\* and Connect right after the start of its goroutine.
TfStart(s) ==
    /\ stream = s
    /\ cancelled = FALSE
    /\ tailLog = [p \in Paths |-> <<>>]
    /\ linesClosed = [p \in Paths |-> FALSE]
    /\ srcPc = [p \in Paths |-> "select"]
    /\ srcEvt = [p \in Paths |-> LogEvent(p, <<>>, NilErr)]
    /\ cleanups = [p \in Paths |-> 0]
    /\ wg = Cardinality(Paths)
    /\ closerPc = "wait"
    /\ tfOutClosed = 0
    /\ pipePc = "select"
    /\ pipeEvt = UnmatchedEvent(LogEvent("", <<>>, NilErr))
    /\ cnOutClosed = 0
    /\ received = 0
    /\ dropped = 0
    /\ delivered = <<>>
    /\ tfFiles = <<"f1", "f2">>
    /\ tfExists = Paths
    /\ tfIdx = Len(tfFiles) + 1
    /\ tfPc = "returned"
    /\ tfErr = NoError
    /\ tfRet = "out"

TfIdle == TfStart(New(<<>>, FALSE, SeverityMedium))

\* The Controller, the rule swap and the UI model where they are not used.
Unused == [pc |-> "unused"]

ExtIdle ==
    /\ ctl = Unused
    /\ swap = Unused
    /\ ui = Unused
    /\ mem = Unused

\* ---------------------------------------------- BuildFragments, step by step

HlInit ==
    /\ TfIdle
    /\ ExtIdle
    /\ RmIdle
    /\ PpIdle
    /\ hlLine \in Lines
    /\ hlSpans \in SpanLists
    /\ hlSorted = <<>>
    /\ hlIdx = 1
    /\ hlSt = [fragments |-> <<>>, cursor |-> 0]
    /\ hlPc = "call"
    /\ hlResult = <<>>

\* len(spans) == 0: the whole line as one plain fragment.
HlEmpty ==
    /\ hlPc = "call"
    /\ Len(hlSpans) = 0
    /\ hlResult' = BuildSorted(hlLine, hlSpans)
    /\ hlPc' = "done"
    /\ UNCHANGED <<hlLine, hlSpans, hlSorted, hlIdx, hlSt, rmVars, extVars, ppVars, tfVars>>

\* sort.Slice(spans, by start), then cursor := 0.
HlSort ==
    /\ hlPc = "call"
    /\ Len(hlSpans) > 0
    /\ \E s \in SortedByStart(hlSpans) : hlSorted' = s
    /\ hlIdx' = 1
    /\ hlSt' = [fragments |-> <<>>, cursor |-> 0]
    /\ hlPc' = "loop"
    /\ UNCHANGED <<hlLine, hlSpans, hlResult, rmVars, extVars, ppVars, tfVars>>

\* One iteration of `for _, span := range spans`.
HlIter ==
    /\ hlPc = "loop"
    /\ hlIdx <= Len(hlSorted)
    /\ hlSt' = SpanStep(hlLine, hlSt, hlSorted[hlIdx])
    /\ hlIdx' = hlIdx + 1
    /\ UNCHANGED <<hlLine, hlSpans, hlSorted, hlPc, hlResult, rmVars, extVars, ppVars, tfVars>>

\* The trailing fragment and the return.
HlTail ==
    /\ hlPc = "loop"
    /\ hlIdx > Len(hlSorted)
    /\ hlResult' = TailStep(hlLine, hlSt)
    /\ hlPc' = "done"
    /\ UNCHANGED <<hlLine, hlSpans, hlSorted, hlIdx, hlSt, rmVars, extVars, ppVars, tfVars>>

HlNext == HlEmpty \/ HlSort \/ HlIter \/ HlTail

SpecFrag == HlInit /\ [][HlNext]_vars

\* C1: for every line and span list, the concatenation of the text of the
\* fragments BuildFragments returns equals the line.
C1_Lossless == hlPc = "done" => String(hlResult) = hlLine

\* Position k (0-based) of the line lies in some clamped span.
Covered(line, spans, k) ==
    \E i \in 1..Len(spans) :
        /\ clamp(spans[i][1], 0, Len(line)) <= k
        /\ k < clamp(spans[i][2], 0, Len(line))

\* The emphasis flag of every character the fragments hold, in order.
RECURSIVE EmphFlags(_)
EmphFlags(frags) ==
    IF Len(frags) = 0 THEN <<>>
    ELSE [i \in 1..Len(frags[1].Text) |-> frags[1].Emphasized] \o EmphFlags(Tail(frags))

ExactCover ==
    /\ String(hlResult) = hlLine
    /\ EmphFlags(hlResult) = [k \in 1..Len(hlLine) |-> Covered(hlLine, hlSpans, k - 1)]

\* C2: the cursor of BuildFragments never moves backward, and in the result
\* every position of the line appears exactly once, emphasized if and only if
\* a clamped span covers it.
C2_CursorForward ==
    [][/\ hlSt'.cursor >= hlSt.cursor
       /\ (hlPc' = "done" => ExactCover')]_vars

\* ------------------------------------------------- Compile, FilterByTags, Match

RmInit ==
    /\ TfIdle
    /\ ExtIdle
    /\ HlIdle
    /\ PpIdle
    /\ rmDefs \in ValidDefLists
    /\ rmCompiled = Compile(rmDefs)
    /\ rmRules = rmCompiled.Rules
    /\ rmFiltered = FALSE
    /\ rmTags = <<>>
    /\ rmLine = <<>>
    /\ rmResult = NoMatch
    /\ rmSorted = <<>>
    /\ rmPc = "compiled"

\* rs = rs.FilterByTags(tags)
RmFilterByTags ==
    /\ rmPc = "compiled"
    /\ ~rmFiltered
    /\ rmFiltered' = TRUE
    /\ \E tags \in TagRequests :
        /\ rmTags' = tags
        /\ rmRules' = FilterByTags(rmRules, tags)
    /\ rmPc' = "filtered"
    /\ UNCHANGED <<rmDefs, rmLine, rmResult, rmCompiled, rmSorted, hlVars, ppVars, extVars, tfVars>>

\* rs.Match(line)
RmMatch ==
    /\ rmPc \in {"compiled", "filtered"}
    /\ \E line \in Lines :
        /\ rmLine' = line
        /\ rmResult' = Match(rmRules, line)
    /\ rmPc' = "matched"
    /\ UNCHANGED <<rmDefs, rmRules, rmFiltered, rmTags, rmCompiled, rmSorted,
                   hlVars, ppVars, extVars, tfVars>>

\* rs.sortedRules(), as Match calls it
RmSortedRules ==
    /\ rmPc \in {"compiled", "filtered"}
    /\ rmSorted' = sortedRules(rmRules)
    /\ rmPc' = "sorted"
    /\ UNCHANGED <<rmDefs, rmRules, rmFiltered, rmTags, rmLine, rmResult, rmCompiled,
                   hlVars, ppVars, extVars, tfVars>>

RmNext == RmFilterByTags \/ RmMatch \/ RmSortedRules

SpecMatch == RmInit /\ [][RmNext]_vars

\* --------------------------------------------------------------- Compile

CompileInit ==
    /\ TfIdle
    /\ ExtIdle
    /\ HlIdle
    /\ PpIdle
    /\ rmDefs \in FileDefLists
    /\ rmCompiled = Compile(<<>>)
    /\ rmRules = <<>>
    /\ rmFiltered = FALSE
    /\ rmTags = <<>>
    /\ rmLine = <<>>
    /\ rmResult = NoMatch
    /\ rmSorted = <<>>
    /\ rmPc = "call"

\* ruleset, err := rules.Compile(defs)
RmCompile ==
    /\ rmPc = "call"
    /\ rmCompiled' = Compile(rmDefs)
    /\ rmRules' = rmCompiled'.Rules
    /\ rmPc' = IF rmCompiled'.ok THEN "compiled" ELSE "failed"
    /\ UNCHANGED <<rmDefs, rmFiltered, rmTags, rmLine, rmResult, rmSorted,
                   hlVars, ppVars, extVars, tfVars>>

CompileNext == RmCompile

SpecCompile == CompileInit /\ [][CompileNext]_vars

\* ------------------------------------------- the pipeline stage on one event

PpInit ==
    /\ TfIdle
    /\ ExtIdle
    /\ HlIdle
    /\ RmIdle
    /\ \E defs \in PipeDefLists, showAll \in BOOLEAN, min \in Severities :
           ppStream = New(Compile(defs).Rules, showAll, min)
    /\ ppEvt = LogEvent("", <<>>, NilErr)
    /\ ppOut = <<>>
    /\ ppPc = "connected"

\* One pass of the loop of Connect: receive evt, send what Process yields.
PpProcess ==
    /\ ppPc = "connected"
    /\ \E evt \in LogEvents :
        /\ ppEvt' = evt
        /\ \E out \in Process(ppStream, evt) : ppOut' = out
    /\ ppPc' = "processed"
    /\ UNCHANGED <<ppStream, hlVars, rmVars, extVars, tfVars>>

PpNext == PpProcess

SpecPipe == PpInit /\ [][PpNext]_vars

\* --------------------------------------- TailFiles and Connect, concurrently

\* What tails.Lines can deliver: a line with a text, or a line with an error.
TailLine(text, err) == [Text |-> text, Err |-> err]

TailLines ==
    {TailLine(<<"a">>, NilErr), TailLine(<<"a", "b">>, NilErr), TailLine(<<"b">>, NilErr),
     TailLine(<<>>, ReadErr)}

\* The rules of the running pipeline: a is of low severity, ab is critical, so
\* that under minSeverity medium the line a is filtered by severity, ab
\* passes and b matches nothing.
ConnDefs ==
    <<[Name |-> RuleNames[1], Color |-> RuleColors[1], Severity |-> "low",
       Pattern |-> [kind |-> "lit", text |-> <<"a">>], Tags |-> RuleTags[1]],
      [Name |-> RuleNames[2], Color |-> RuleColors[2], Severity |-> "critical",
       Pattern |-> [kind |-> "lit", text |-> <<"a", "b">>], Tags |-> RuleTags[2]]>>

\* Mutant of LogEventOf: the goroutine reads the loop variable `file`, which
\* holds the last path by the time it runs.
LogEventOfLastFile(p, line) ==
    IF line.Err # NilErr THEN LogEvent("f2", <<>>, line.Err)
    ELSE LogEvent("f2", line.Text, NilErr)

\* Mutant of LogEventOf: line.Err is not looked at, every tail line is sent
\* as a line of text.
LogEventOfTextOnly(p, line) == LogEvent(p, line.Text, NilErr)

\* The LogEvent the goroutine of path p builds from a tail line.
LogEventOf(p, line) ==
    IF line.Err # NilErr THEN LogEvent(p, <<>>, line.Err)
    ELSE LogEvent(p, line.Text, NilErr)

\* Mutant of WaitReturns: the counter was raised by one (wg.Add(1)), so the
\* first goroutine to finish releases wg.Wait().
WaitReturnsAfterFirst == wg < Cardinality(Paths)

\* wg.Wait() returns.
WaitReturns == wg = 0

Init ==
    /\ HlIdle
    /\ ExtIdle
    /\ RmIdle
    /\ PpIdle
    /\ \E showAll \in BOOLEAN :
           TfStart(New(Compile(ConnDefs).Rules, showAll, SeverityMedium))

\* The number of lines all sources have read.
RECURSIVE SumOver(_, _)
SumOver(f, S) ==
    IF S = {} THEN 0
    ELSE LET x == CHOOSE y \in S : TRUE IN f[x] + SumOver(f, S \ {x})

TotalReads == SumOver([p \in Paths |-> Len(tailLog[p])], Paths)

\* Mutant of SrcDefers: the two defer statements in the other order.
SrcDefersDoneLast == <<"tails.Cleanup", "wg.Done">>

\* The defer statements of a source goroutine, in program order.
SrcDefers == <<"wg.Done", "tails.Cleanup">>

\* Deferred calls run last in, first out: the k-th to run at the return.
DeferredCall(k) == SrcDefers[Len(SrcDefers) + 1 - k]

\* What a deferred call of the goroutine of p does.
RunDeferred(p, call) ==
    /\ cleanups' = IF call = "tails.Cleanup" THEN [cleanups EXCEPT ![p] = @ + 1]
                   ELSE cleanups
    /\ wg' = IF call = "wg.Done" THEN wg - 1 ELSE wg

\* `return` in a source goroutine: the first deferred call runs.
SrcExit(p) ==
    /\ RunDeferred(p, DeferredCall(1))
    /\ srcPc' = [srcPc EXCEPT ![p] = "deferred"]

\* case <-ctx.Done(): return
SrcCancel(p) ==
    /\ srcPc[p] = "select"
    /\ cancelled
    /\ SrcExit(p)
    /\ UNCHANGED <<stream, cancelled, tailLog, linesClosed, srcEvt, closerPc, tfOutClosed,
                   pipePc, pipeEvt, cnOutClosed, received, dropped, delivered,
                   callVars, hlVars, rmVars, extVars, ppVars>>

\* Mutant of SrcAtSelect: the goroutine reads ahead while its last line is
\* still waiting to be sent, as with a buffer between read and send.
SrcReadsAhead(p) == srcPc[p] \in {"select", "send"}

\* The goroutine of p is at its select: its last send has completed.
SrcAtSelect(p) == srcPc[p] = "select"

\* case line, ok := <-tails.Lines with ok: the goroutine goes on to send.
SrcRecv(p) ==
    /\ SrcAtSelect(p)
    /\ ~linesClosed[p]
    /\ TotalReads < MaxReads
    /\ \E line \in TailLines :
        /\ tailLog' = [tailLog EXCEPT ![p] = Append(@, line)]
        /\ srcEvt' = [srcEvt EXCEPT ![p] = LogEventOf(p, line)]
    /\ srcPc' = [srcPc EXCEPT ![p] = "send"]
    /\ UNCHANGED <<stream, cancelled, linesClosed, cleanups, wg, closerPc, tfOutClosed,
                   pipePc, pipeEvt, cnOutClosed, received, dropped, delivered,
                   callVars, hlVars, rmVars, extVars, ppVars>>

\* case line, ok := <-tails.Lines with !ok: return
SrcLinesClosed(p) ==
    /\ srcPc[p] = "select"
    /\ linesClosed[p]
    /\ SrcExit(p)
    /\ UNCHANGED <<stream, cancelled, tailLog, linesClosed, srcEvt, closerPc, tfOutClosed,
                   pipePc, pipeEvt, cnOutClosed, received, dropped, delivered,
                   callVars, hlVars, rmVars, extVars, ppVars>>

\* The second deferred call runs and the goroutine is gone.
SrcDeferred(p) ==
    /\ srcPc[p] = "deferred"
    /\ RunDeferred(p, DeferredCall(2))
    /\ srcPc' = [srcPc EXCEPT ![p] = "done"]
    /\ UNCHANGED <<stream, cancelled, tailLog, linesClosed, srcEvt, closerPc, tfOutClosed,
                   pipePc, pipeEvt, cnOutClosed, received, dropped, delivered,
                   callVars, hlVars, rmVars, extVars, ppVars>>

\* The tail library stops tailing path p and closes tails.Lines.
TailStop(p) ==
    /\ srcPc[p] \in {"select", "send"}
    /\ ~linesClosed[p]
    /\ linesClosed' = [linesClosed EXCEPT ![p] = TRUE]
    /\ UNCHANGED <<stream, cancelled, tailLog, srcPc, srcEvt, cleanups, wg, closerPc,
                   tfOutClosed, pipePc, pipeEvt, cnOutClosed, received, dropped, delivered,
                   callVars, hlVars, rmVars, extVars, ppVars>>

\* The unbuffered channel between TailFiles and Connect: `out <- LogEvent` of
\* the goroutine of p meets `case evt, ok := <-in`, and Connect runs the loop
\* body on evt up to its own send or its `continue`.
Handoff(p) ==
    /\ srcPc[p] = "send"
    /\ pipePc = "select"
    /\ tfOutClosed = 0
    /\ srcPc' = [srcPc EXCEPT ![p] = "select"]
    /\ received' = received + 1
    /\ \E out \in Process(stream, srcEvt[p]) :
        IF out = <<>>
        THEN /\ dropped' = dropped + 1
             /\ UNCHANGED <<pipePc, pipeEvt>>
        ELSE /\ pipeEvt' = out[1]
             /\ pipePc' = "send"
             /\ UNCHANGED dropped
    /\ UNCHANGED <<stream, cancelled, tailLog, linesClosed, srcEvt, cleanups, wg, closerPc,
                   tfOutClosed, cnOutClosed, delivered, callVars, hlVars, rmVars, extVars, ppVars>>

\* go func() { defer close(out); wg.Wait() }()
Closer ==
    /\ closerPc = "wait"
    /\ WaitReturns
    /\ tfOutClosed' = tfOutClosed + 1
    /\ closerPc' = "done"
    /\ UNCHANGED <<stream, cancelled, tailLog, linesClosed, srcPc, srcEvt, cleanups, wg,
                   pipePc, pipeEvt, cnOutClosed, received, dropped, delivered,
                   callVars, hlVars, rmVars, extVars, ppVars>>

\* The deferred close(out) of the goroutine of Connect.
PipeExit ==
    /\ cnOutClosed' = cnOutClosed + 1
    /\ pipePc' = "done"

\* Connect: case <-ctx.Done(): return
PipeCancel ==
    /\ pipePc = "select"
    /\ cancelled
    /\ PipeExit
    /\ UNCHANGED <<stream, cancelled, tailLog, linesClosed, srcPc, srcEvt, cleanups, wg,
                   closerPc, tfOutClosed, pipeEvt, received, dropped, delivered,
                   callVars, hlVars, rmVars, extVars, ppVars>>

\* Connect: case evt, ok := <-in with !ok: return
PipeInClosed ==
    /\ pipePc = "select"
    /\ tfOutClosed > 0
    /\ PipeExit
    /\ UNCHANGED <<stream, cancelled, tailLog, linesClosed, srcPc, srcEvt, cleanups, wg,
                   closerPc, tfOutClosed, pipeEvt, received, dropped, delivered,
                   callVars, hlVars, rmVars, extVars, ppVars>>

\* The consumer receives what Connect sends (`out <- highlightEvt`).
Consume ==
    /\ pipePc = "send"
    /\ delivered' = Append(delivered, pipeEvt)
    /\ pipePc' = "select"
    /\ UNCHANGED <<stream, cancelled, tailLog, linesClosed, srcPc, srcEvt, cleanups, wg,
                   closerPc, tfOutClosed, pipeEvt, cnOutClosed, received, dropped,
                   callVars, hlVars, rmVars, extVars, ppVars>>

\* The cancellation signal: cancel() closes ctx.Done().
Cancel ==
    /\ ~cancelled
    /\ cancelled' = TRUE
    /\ UNCHANGED <<stream, tailLog, linesClosed, srcPc, srcEvt, cleanups, wg, closerPc,
                   tfOutClosed, pipePc, pipeEvt, cnOutClosed, received, dropped, delivered,
                   callVars, hlVars, rmVars, extVars, ppVars>>

Next ==
    \/ \E p \in Paths : SrcCancel(p)
    \/ \E p \in Paths : SrcRecv(p)
    \/ \E p \in Paths : SrcLinesClosed(p)
    \/ \E p \in Paths : SrcDeferred(p)
    \/ \E p \in Paths : TailStop(p)
    \/ \E p \in Paths : Handoff(p)
    \/ Closer
    \/ PipeCancel
    \/ PipeInClosed
    \/ Consume
    \/ Cancel

Spec == Init /\ [][Next]_vars

\* A step of one of the goroutines of TailFiles and Connect: a return, a
\* deferred call, or a channel operation whose partner is ready.
GoroutineStep ==
    \/ \E p \in Paths : SrcCancel(p) \/ SrcLinesClosed(p) \/ SrcDeferred(p) \/ Handoff(p)
    \/ Closer
    \/ PipeCancel
    \/ PipeInClosed

\* ----------------------------------------------------- the call of TailFiles

\* The file lists TailFiles is called with: distinct paths, none to all.
FileLists ==
    {<<>>} \cup {<<p>> : p \in Paths}
           \cup {<<pq[1], pq[2]>> : pq \in {x \in Paths \X Paths : x[1] # x[2]}}

\* Before the call: nothing runs, any of the paths may be missing on disk.
TailInit ==
    /\ HlIdle
    /\ ExtIdle
    /\ RmIdle
    /\ PpIdle
    /\ stream = New(<<>>, FALSE, SeverityMedium)
    /\ cancelled = FALSE
    /\ tailLog = [p \in Paths |-> <<>>]
    /\ linesClosed = [p \in Paths |-> FALSE]
    /\ srcPc = [p \in Paths |-> "none"]
    /\ srcEvt = [p \in Paths |-> LogEvent(p, <<>>, NilErr)]
    /\ cleanups = [p \in Paths |-> 0]
    /\ wg = 0
    /\ closerPc = "none"
    /\ tfOutClosed = 0
    /\ pipePc = "none"
    /\ pipeEvt = UnmatchedEvent(LogEvent("", <<>>, NilErr))
    /\ cnOutClosed = 0
    /\ received = 0
    /\ dropped = 0
    /\ delivered = <<>>
    /\ tfFiles \in FileLists
    /\ tfExists \in SUBSET Paths
    /\ tfIdx = 1
    /\ tfPc = "call"
    /\ tfErr = NoError
    /\ tfRet = "nil"

\* if len(files) == 0 { return nil, errors.New("no files provided") }
TfNoFiles ==
    /\ tfPc = "call"
    /\ Len(tfFiles) = 0
    /\ tfErr' = TailError("no files provided", "")
    /\ tfRet' = "nil"
    /\ tfPc' = "error"
    /\ UNCHANGED <<stream, cancelled, tailLog, linesClosed, srcPc, srcEvt, cleanups, wg,
                   closerPc, tfOutClosed, pipePc, pipeEvt, cnOutClosed, received, dropped,
                   delivered, tfFiles, tfExists, tfIdx, hlVars, rmVars, extVars, ppVars>>

\* out := make(chan LogEvent); wg.Add(len(files))
TfAdd ==
    /\ tfPc = "call"
    /\ Len(tfFiles) > 0
    /\ wg' = wg + Len(tfFiles)
    /\ tfPc' = "loop"
    /\ UNCHANGED <<stream, cancelled, tailLog, linesClosed, srcPc, srcEvt, cleanups,
                   closerPc, tfOutClosed, pipePc, pipeEvt, cnOutClosed, received, dropped,
                   delivered, tfFiles, tfExists, tfIdx, tfErr, tfRet,
                   hlVars, rmVars, extVars, ppVars>>

\* Mutant of FileOpens: MustExist is false, tail.TailFile waits for the file.
FileOpensAlways(file) == TRUE

\* tail.TailFile(file, tail.Config{..., MustExist: true}) returns no error.
FileOpens(file) == file \in tfExists

\* tail.TailFile fails: return nil, fmt.Errorf("tail %s: %w", file, err)
TfOpenFail ==
    /\ tfPc = "loop"
    /\ tfIdx <= Len(tfFiles)
    /\ ~FileOpens(tfFiles[tfIdx])
    /\ tfErr' = TailError("tail", tfFiles[tfIdx])
    /\ tfRet' = "nil"
    /\ tfPc' = "error"
    /\ UNCHANGED <<stream, cancelled, tailLog, linesClosed, srcPc, srcEvt, cleanups, wg,
                   closerPc, tfOutClosed, pipePc, pipeEvt, cnOutClosed, received, dropped,
                   delivered, tfFiles, tfExists, tfIdx, hlVars, rmVars, extVars, ppVars>>

\* tail.TailFile succeeds: go func(p string, tails *tail.Tail) {...}(file, t)
TfSpawn ==
    /\ tfPc = "loop"
    /\ tfIdx <= Len(tfFiles)
    /\ FileOpens(tfFiles[tfIdx])
    /\ srcPc' = [srcPc EXCEPT ![tfFiles[tfIdx]] = "select"]
    /\ tfIdx' = tfIdx + 1
    /\ UNCHANGED <<stream, cancelled, tailLog, linesClosed, srcEvt, cleanups, wg,
                   closerPc, tfOutClosed, pipePc, pipeEvt, cnOutClosed, received, dropped,
                   delivered, tfFiles, tfExists, tfPc, tfErr, tfRet,
                   hlVars, rmVars, extVars, ppVars>>

\* After the loop: the closing goroutine is started, return out, nil
TfReturn ==
    /\ tfPc = "loop"
    /\ tfIdx > Len(tfFiles)
    /\ closerPc' = "wait"
    /\ tfRet' = "out"
    /\ tfPc' = "returned"
    /\ UNCHANGED <<stream, cancelled, tailLog, linesClosed, srcPc, srcEvt, cleanups, wg,
                   tfOutClosed, pipePc, pipeEvt, cnOutClosed, received, dropped,
                   delivered, tfFiles, tfExists, tfIdx, tfErr, hlVars, rmVars, extVars, ppVars>>

\* The caller, holding the channel TailFiles returned, receives the LogEvent
\* the goroutine of p is sending.
TfReceive(p) ==
    /\ tfPc = "returned"
    /\ srcPc[p] = "send"
    /\ tfOutClosed = 0
    /\ srcPc' = [srcPc EXCEPT ![p] = "select"]
    /\ received' = received + 1
    /\ UNCHANGED <<stream, cancelled, tailLog, linesClosed, srcEvt, cleanups, wg,
                   closerPc, tfOutClosed, pipePc, pipeEvt, cnOutClosed, dropped,
                   delivered, callVars, hlVars, rmVars, extVars, ppVars>>

TailNext ==
    \/ TfNoFiles
    \/ TfAdd
    \/ TfOpenFail
    \/ TfSpawn
    \/ TfReturn
    \/ \E p \in Paths : TfReceive(p)
    \/ \E p \in Paths : SrcCancel(p)
    \/ \E p \in Paths : SrcRecv(p)
    \/ \E p \in Paths : SrcLinesClosed(p)
    \/ \E p \in Paths : SrcDeferred(p)
    \/ \E p \in Paths : TailStop(p)
    \/ Closer
    \/ Cancel

SpecTail == TailInit /\ [][TailNext]_vars

\* --------------------------------------------- the Controller: apply, shutdown

\* The paths a Selection can name, and the Selections.
CtlPaths == {"f1", "f2", "f3"}
Selections == SUBSET CtlPaths

NoHandle == 0

\* A Controller right after its creation: no source, the empty Selection.
\* handles holds every tail source ever started, a handle being its position.
NewController(exists) ==
    [exists |-> exists,                          \* the paths that exist on disk
     sources |-> [p \in CtlPaths |-> NoHandle],   \* the map path -> handle
     selection |-> {},                           \* the current Selection
     handles |-> <<>>,
     pc |-> "idle",        \* "idle", "applying", "closing" (shutdown), "down"
     target |-> {},        \* the Selection of the call being processed
     toAdd |-> {}, toRemove |-> {}, stopping |-> {},
     failed |-> {},        \* the additions of this call that have failed
     err |-> {},           \* the aggregate error the last call returned
     before |-> [p \in CtlPaths |-> NoHandle],   \* the map when the call began
     beforeSel |-> {},     \* the Selection when the call began
     applies |-> 0,
     emitted |-> <<>>]     \* the events emitted, see Emission

\* A tail source as started: running, not asked to stop, never stopped.
NewSource(p) == [path |-> p, st |-> "running", cancelled |-> FALSE, stops |-> 0]

\* Mutants of ApplyPlan: every path of the new Selection is started again
\* after every current source was torn down; every path of the new Selection
\* is started, also those that have a source.
ApplyPlanRestart(sel, cur) == [add |-> sel, remove |-> cur]

ApplyPlanAddAll(sel, cur) == [add |-> sel, remove |-> cur \ sel]

\* The set difference of the new Selection against the current one.
ApplyPlan(sel, cur) == [add |-> sel \ cur, remove |-> cur \ sel]

\* Mutant of AfterFailure: the first failed addition ends the additions.
AfterFailureAbort(toAdd, p) == {}

\* The additions still to attempt after the addition of p has failed.
AfterFailure(toAdd, p) == toAdd \ {p}

\* Mutant of TornDown: the map entry is dropped without waiting for the source.
TornDownUnchecked(h) == TRUE

\* Teardown of the source with handle h is complete: its task has ended and
\* its file handle is released.
TornDown(h) == ctl.handles[h].st = "released"

CtlInit ==
    /\ HlIdle
    /\ RmIdle
    /\ PpIdle
    /\ TfIdle
    /\ swap = Unused
    /\ ui = Unused
    /\ mem = Unused
    /\ \E exists \in SUBSET CtlPaths : ctl = NewController(exists)

\* The serialization point takes up the call apply(sel) or, with the empty
\* Selection and for good, the shutdown.
CtBegin(sel, pc) ==
    /\ ctl.pc = "idle"
    /\ LET plan == ApplyPlan(sel, ctl.selection)
       IN ctl' = [ctl EXCEPT !.pc = pc, !.target = sel, !.toAdd = plan.add,
                             !.toRemove = plan.remove, !.failed = {},
                             !.before = ctl.sources, !.beforeSel = ctl.selection,
                             !.applies = @ + 1]
    /\ UNCHANGED <<hlVars, rmVars, ppVars, tfVars, swap, ui, mem>>

CtApply ==
    /\ ctl.applies < MaxApplies
    /\ \E sel \in Selections : CtBegin(sel, "applying")

CtShutdown == CtBegin({}, "closing")

\* An addition: the tail source of p is created and entered into the map.
CtStart(p) ==
    /\ ctl.pc = "applying"
    /\ p \in ctl.toAdd
    /\ p \in ctl.exists
    /\ ctl' = [ctl EXCEPT !.handles = Append(@, NewSource(p)),
                          !.sources[p] = Len(ctl.handles) + 1,
                          !.toAdd = @ \ {p}]
    /\ UNCHANGED <<hlVars, rmVars, ppVars, tfVars, swap, ui, mem>>

\* An addition fails: the file of p does not exist.
CtStartFail(p) ==
    /\ ctl.pc = "applying"
    /\ p \in ctl.toAdd
    /\ p \notin ctl.exists
    /\ ctl' = [ctl EXCEPT !.failed = @ \cup {p}, !.toAdd = AfterFailure(@, p)]
    /\ UNCHANGED <<hlVars, rmVars, ppVars, tfVars, swap, ui, mem>>

\* A removal begins: the source of p is told to stop.
CtTeardown(p) ==
    /\ ctl.pc \in {"applying", "closing"}
    /\ p \in ctl.toRemove
    /\ ctl.sources[p] # NoHandle
    /\ ctl' = [ctl EXCEPT !.handles[ctl.sources[p]].cancelled = TRUE,
                          !.handles[ctl.sources[p]].stops = @ + 1,
                          !.toRemove = @ \ {p}, !.stopping = @ \cup {p}]
    /\ UNCHANGED <<hlVars, rmVars, ppVars, tfVars, swap, ui, mem>>

\* A removal of a path whose addition had failed: there is no source.
CtForget(p) ==
    /\ ctl.pc \in {"applying", "closing"}
    /\ p \in ctl.toRemove
    /\ ctl.sources[p] = NoHandle
    /\ ctl' = [ctl EXCEPT !.toRemove = @ \ {p}]
    /\ UNCHANGED <<hlVars, rmVars, ppVars, tfVars, swap, ui, mem>>

\* A removal ends: teardown is complete and the map entry is dropped.
CtDrop(p) ==
    /\ p \in ctl.stopping
    /\ TornDown(ctl.sources[p])
    /\ ctl' = [ctl EXCEPT !.sources[p] = NoHandle, !.stopping = @ \ {p}]
    /\ UNCHANGED <<hlVars, rmVars, ppVars, tfVars, swap, ui, mem>>

\* The call returns: the Selection is the requested one, the error names the
\* failed additions. After the shutdown the Controller takes no more calls.
CtReturn ==
    /\ ctl.pc \in {"applying", "closing"}
    /\ ctl.toAdd = {} /\ ctl.toRemove = {} /\ ctl.stopping = {}
    /\ ctl' = [ctl EXCEPT !.selection = ctl.target, !.err = ctl.failed,
                          !.pc = IF ctl.pc = "closing" THEN "down" ELSE "idle"]
    /\ UNCHANGED <<hlVars, rmVars, ppVars, tfVars, swap, ui, mem>>

\* The source with handle h reads a line of its file.
CtSrcRead(h) ==
    /\ ctl.handles[h].st = "running"
    /\ ~ctl.handles[h].cancelled
    /\ Len(ctl.emitted)
          + Cardinality({k \in 1..Len(ctl.handles) : ctl.handles[k].st = "sending"})
          < MaxEmits
    /\ ctl' = [ctl EXCEPT !.handles[h].st = "sending"]
    /\ UNCHANGED <<hlVars, rmVars, ppVars, tfVars, swap, ui, mem>>

\* The event of a line of the source with handle h, with what the map says of
\* its path when it is emitted.
Emission(h) ==
    [path |-> ctl.handles[h].path, handle |-> h,
     mapped |-> ctl.sources[ctl.handles[h].path] = h]

\* The line goes through the merged stream and the pipeline emits its event.
CtSrcEmit(h) ==
    /\ ctl.handles[h].st = "sending"
    /\ ctl' = [ctl EXCEPT !.handles[h].st = "running",
                          !.emitted = Append(@, Emission(h))]
    /\ UNCHANGED <<hlVars, rmVars, ppVars, tfVars, swap, ui, mem>>

\* The source with handle h, told to stop, releases its file handle and ends.
CtSrcExit(h) ==
    /\ ctl.handles[h].st \in {"running", "sending"}
    /\ ctl.handles[h].cancelled
    /\ ctl' = [ctl EXCEPT !.handles[h].st = "released"]
    /\ UNCHANGED <<hlVars, rmVars, ppVars, tfVars, swap, ui, mem>>

CtlNext ==
    \/ CtApply
    \/ CtShutdown
    \/ \E p \in CtlPaths : CtStart(p)
    \/ \E p \in CtlPaths : CtStartFail(p)
    \/ \E p \in CtlPaths : CtTeardown(p)
    \/ \E p \in CtlPaths : CtForget(p)
    \/ \E p \in CtlPaths : CtDrop(p)
    \/ CtReturn
    \/ \E h \in 1..Len(ctl.handles) : CtSrcRead(h)
    \/ \E h \in 1..Len(ctl.handles) : CtSrcEmit(h)
    \/ \E h \in 1..Len(ctl.handles) : CtSrcExit(h)

SpecCtl == CtlInit /\ [][CtlNext]_vars

\* ------------------------------------- setRules next to the classification

\* The RuleSets to install: no rule, or a low rule declared first and a
\* critical one second, with every pair of patterns.
SwapDefLists ==
    {<<>>} \cup
    {<<[Name |-> RuleNames[1], Color |-> RuleColors[1], Pattern |-> pq[1],
        Severity |-> SeverityLow, Tags |-> RuleTags[1]],
       [Name |-> RuleNames[2], Color |-> RuleColors[2], Pattern |-> pq[2],
        Severity |-> SeverityCritical, Tags |-> RuleTags[2]]>> :
       pq \in PipePatterns \X PipePatterns}

SwapRuleSets == {Compile(defs).Rules : defs \in SwapDefLists}

\* Mutant of Install: the rules of the new RuleSet are written into the active one.
InstallInPlace(sets, active, rs) ==
    [sets |-> [sets EXCEPT ![active] = rs], active |-> active]

\* setRules: the new RuleSet is a new value and the active reference is
\* switched to it in one step; the old value stays as it is.
Install(sets, active, rs) ==
    [sets |-> Append(sets, rs), active |-> Len(sets) + 1]

\* The pipeline with its first RuleSet: sets holds the RuleSet values by
\* reference, active is the reference the pipeline stage reads at the start
\* of a line, installed records each RuleSet as it was when it was installed.
NewSwap(rs) ==
    [sets |-> <<rs>>, active |-> 1, installed |-> <<rs>>,
     pc |-> "idle",        \* "idle", "matching", "done"
     line |-> <<>>, snap |-> 1, start |-> 1, i |-> 1, result |-> NoMatch,
     mid |-> 0]            \* the round the loop was in at the last setRules

SwapInit ==
    /\ HlIdle
    /\ RmIdle
    /\ PpIdle
    /\ TfIdle
    /\ ctl = Unused
    /\ ui = Unused
    /\ mem = Unused
    /\ \E rs \in SwapRuleSets : swap = NewSwap(rs)

\* The serialization point processes setRules(rs).
SetRules ==
    /\ Len(swap.installed) <= MaxSwaps
    /\ \E rs \in SwapRuleSets :
          LET new == Install(swap.sets, swap.active, rs)
          IN swap' = [swap EXCEPT !.sets = new.sets, !.active = new.active,
                                  !.installed = Append(@, rs),
                                  !.mid = IF swap.pc = "matching"
                                              THEN swap.i ELSE @]
    /\ UNCHANGED <<hlVars, rmVars, ppVars, tfVars, ctl, ui, mem>>

\* The pipeline stage takes a line and the RuleSet reference for it.
ClassifyStart ==
    /\ swap.pc \in {"idle", "done"}
    /\ \E line \in Lines :
          swap' = [swap EXCEPT !.pc = "matching", !.line = line,
                               !.snap = swap.active,
                               !.start = Len(swap.installed),
                               !.i = 1, !.result = NoMatch, !.mid = 0]
    /\ UNCHANGED <<hlVars, rmVars, ppVars, tfVars, ctl, ui, mem>>

\* One round of the loop of RuleSet.Match over the rules of the reference
\* taken for the line.
ClassifyStep ==
    /\ swap.pc = "matching"
    /\ LET sorted == sortedRules(swap.sets[swap.snap])
       IN IF swap.i > Len(sorted)
          THEN swap' = [swap EXCEPT !.pc = "done", !.result = NoMatch]
          ELSE LET locs == FindAllStringIndex(sorted[swap.i].Pattern, swap.line)
               IN IF Len(locs) = 0
                  THEN swap' = [swap EXCEPT !.i = @ + 1]
                  ELSE swap' = [swap EXCEPT
                                   !.pc = "done",
                                   !.result = [matched |-> TRUE,
                                               Captures |-> captureMap(
                                                   sorted[swap.i].Pattern, swap.line),
                                               Rule |-> sorted[swap.i],
                                               HighlightSpans |-> toPairs(locs)]]
    /\ UNCHANGED <<hlVars, rmVars, ppVars, tfVars, ctl, ui, mem>>

SwapNext ==
    \/ SetRules
    \/ ClassifyStart
    \/ ClassifyStep

SpecSwap == SwapInit /\ [][SwapNext]_vars

\* ------------------------------- RuleSets shared by goroutines, as memory

\* The RuleSets in memory: as for setRules, and with the pattern that has a
\* named group.
MemPatterns == PipePatterns \cup {[kind |-> "any", text |-> <<"(?P<ch>.)">>]}

MemRuleSets ==
    {<<>>} \cup
    {Compile(<<[Name |-> RuleNames[1], Color |-> RuleColors[1], Pattern |-> pq[1],
                Severity |-> SeverityLow, Tags |-> RuleTags[1]],
               [Name |-> RuleNames[2], Color |-> RuleColors[2], Pattern |-> pq[2],
                Severity |-> SeverityCritical, Tags |-> RuleTags[2]]>>).Rules :
       pq \in MemPatterns \X MemPatterns}

\* The goroutines that call Match and FilterByTags.
Callers == {1, 2}

\* The lines they match: one that each pattern decides differently.
MemLines == {<<"a">>, <<"b">>, <<"a", "b">>}

NoCall == [pc |-> "idle", on |-> 0, line |-> <<>>, copyRules |-> <<>>, result |-> NoMatch]

\* slices holds the backing array of every RuleSet.Rules; the RuleSet with
\* reference k has the array slices[k], and two references can be the same
\* array. compiled keeps what each array held when its RuleSet was made.
NewMem(rs) ==
    [slices |-> <<rs>>, compiled |-> <<rs>>,
     sets |-> <<1>>,       \* the RuleSets in use, each the position of its array
     calls |-> [g \in Callers |-> NoCall]]

\* Mutant of SortCopy: sortedRules sorts rs.Rules itself and returns it.
SortInPlace(stored, copyRules) ==
    [stored |-> SliceStable(stored), copyRules |-> SliceStable(stored)]

\* sort.SliceStable(copyRules, ...): the copy is sorted, rs.Rules is not touched.
SortCopy(stored, copyRules) ==
    [stored |-> stored, copyRules |-> SliceStable(copyRules)]

\* FilterByTags: the RuleSet returned is rs itself, the same array, or one
\* with a new array. The memory afterwards.
FilterMem(m, k, tags) ==
    LET rs == m.slices[m.sets[k]]
        filtered == FilterByTags(rs, tags)
        selected == {ToLower(tags[i]) : i \in {j \in 1..Len(tags) : tags[j] # ""}}
    IN IF Len(tags) = 0 \/ selected = {}
       THEN [m EXCEPT !.sets = Append(@, m.sets[k])]
       ELSE [m EXCEPT !.slices = Append(@, filtered),
                      !.compiled = Append(@, filtered),
                      !.sets = Append(@, Len(m.slices) + 1)]

MemInit ==
    /\ HlIdle
    /\ RmIdle
    /\ PpIdle
    /\ TfIdle
    /\ ctl = Unused
    /\ swap = Unused
    /\ ui = Unused
    /\ \E rs \in MemRuleSets : mem = NewMem(rs)

\* Goroutine g calls rs.FilterByTags(tags) on the RuleSet k.
MemFilterByTags(g) ==
    /\ mem.calls[g].pc = "idle"
    /\ Len(mem.sets) <= MaxFiltered
    /\ \E k \in 1..Len(mem.sets), tags \in TagRequests : mem' = FilterMem(mem, k, tags)
    /\ UNCHANGED <<hlVars, rmVars, ppVars, tfVars, ctl, swap, ui>>

\* Goroutine g calls rs.Match(line) on the RuleSet k: an empty RuleSet
\* returns at once, otherwise sortedRules makes its copy.
MemMatch(g) ==
    /\ mem.calls[g].pc \in {"idle", "returned"}
    /\ \E k \in 1..Len(mem.sets), line \in MemLines :
          LET rs == mem.slices[mem.sets[k]]
          IN mem' = [mem EXCEPT !.calls[g] =
                        IF Len(rs) = 0
                        THEN [pc |-> "returned", on |-> k, line |-> line,
                              copyRules |-> <<>>, result |-> NoMatch]
                        ELSE [pc |-> "copied", on |-> k, line |-> line,
                              copyRules |-> rs, result |-> NoMatch]]
    /\ UNCHANGED <<hlVars, rmVars, ppVars, tfVars, ctl, swap, ui>>

\* sortedRules of goroutine g sorts.
MemSort(g) ==
    /\ mem.calls[g].pc = "copied"
    /\ LET a == mem.sets[mem.calls[g].on]
           r == SortCopy(mem.slices[a], mem.calls[g].copyRules)
       IN mem' = [mem EXCEPT !.slices[a] = r.stored,
                             !.calls[g].copyRules = r.copyRules,
                             !.calls[g].pc = "sorted"]
    /\ UNCHANGED <<hlVars, rmVars, ppVars, tfVars, ctl, swap, ui>>

\* The loop of Match over what sortedRules returned, and the return.
MemRange(g) ==
    /\ mem.calls[g].pc = "sorted"
    /\ mem' = [mem EXCEPT !.calls[g].result =
                              MatchFrom(mem.calls[g].copyRules, mem.calls[g].line, 1),
                          !.calls[g].pc = "returned"]
    /\ UNCHANGED <<hlVars, rmVars, ppVars, tfVars, ctl, swap, ui>>

MemNext ==
    \/ \E g \in Callers : MemFilterByTags(g)
    \/ \E g \in Callers : MemMatch(g)
    \/ \E g \in Callers : MemSort(g)
    \/ \E g \in Callers : MemRange(g)

SpecMem == MemInit /\ [][MemNext]_vars

\* ------------------------------------------------------------ internal/tui

DefaultScrollback == 600

\* ModelConfig.Scrollback as configured: negative, zero and positive values.
Scrollbacks == (0 - 1)..MaxScrollback

\* The events of the stream: one with an error, an unmatched line, a matched
\* line. Line n stands for the text of the n-th event received.
UiEvent(kind, n) ==
    CASE kind = "error" ->
           [Err |-> ReadErr, Line |-> 0, Severity |-> "", RuleName |-> ""]
      [] kind = "plain" ->
           [Err |-> NilErr, Line |-> n, Severity |-> SeverityNormal, RuleName |-> ""]
      [] kind = "alert" ->
           [Err |-> NilErr, Line |-> n, Severity |-> SeverityCritical,
            RuleName |-> RuleNames[1]]

UiEventKinds == {"error", "plain", "alert"}

NoMsg == [Err |-> NilErr, Line |-> 0, Severity |-> "", RuleName |-> ""]

\* displayLine{}, the zero value.
NoLine == [Severity |-> "", RuleName |-> "", Text |-> 0, Index |-> 0]

\* NewModel: a scrollback of 0 or less becomes 600. pc is where the receive
\* on the event stream stands: "listen" (issued), "update" (a logMsg waits
\* for Update), "closed" (the stream was closed), "none" (no receive issued),
\* "quit" (Update returned tea.Quit). The modal of the configuration is
\* closed and stays closed.
NewModel(cfg) ==
    [cfg |-> cfg,
     scrollback |-> IF cfg <= 0 THEN DefaultScrollback ELSE cfg,
     events |-> "chan",
     lines |-> <<>>,
     paused |-> FALSE,
     follow |-> TRUE,
     selectedIndex |-> 0 - 1,
     filteredRules |-> {},
     hiddenIndices |-> {},
     detailOpen |-> FALSE,
     detailLine |-> NoLine,
     helpOpen |-> FALSE,
     counts |-> [s \in Severities |-> 0],
     notification |-> <<>>,
     viewport |-> <<>>,
     pc |-> "listen", msg |-> NoMsg, received |-> 0]

\* Model.listen: the command that receives from the event stream, nil
\* without a stream.
listen(m) == IF m.events = "nil" THEN "none" ELSE "listen"

\* getVisibleLines: the lines whose rule is not filtered out and whose index
\* is not hidden, in order.
Shown(m, line) ==
    /\ ~(line.RuleName # "" /\ line.RuleName \in m.filteredRules)
    /\ line.Index \notin m.hiddenIndices

getVisibleLines(m) == SelectSeq(m.lines, LAMBDA line : Shown(m, line))

\* renderLogContent: the rendered rows, one per visible line, in order.
renderLogContent(m) ==
    LET visibleLines == getVisibleLines(m)
    IN [i \in 1..Len(visibleLines) |-> visibleLines[i].Text]

\* Mutant of TrimLines: the oldest lines are the ones kept.
TrimLinesKeepOldest(lines, scrollback) ==
    IF Len(lines) > scrollback THEN SubSeq(lines, 1, scrollback) ELSE lines

\* consumeLog: beyond the scrollback the first lines are cut off and the rest
\* is numbered again from 0.
TrimLines(lines, scrollback) ==
    IF Len(lines) > scrollback
    THEN LET trim == Len(lines) - scrollback
             kept == SubSeq(lines, trim + 1, Len(lines))
         IN [i \in 1..Len(kept) |-> [kept[i] EXCEPT !.Index = i - 1]]
    ELSE lines

\* Mutant of Accumulate: a paused model sets the event aside.
AccumulateUnlessPaused(m, evt, dl) ==
    IF m.paused THEN m
    ELSE [m EXCEPT !.lines = TrimLines(Append(m.lines, dl), m.scrollback),
                   !.counts[evt.Severity] = @ + 1]

\* consumeLog: the line is appended, the lines are trimmed, the event counted.
Accumulate(m, evt, dl) ==
    [m EXCEPT !.lines = TrimLines(Append(m.lines, dl), m.scrollback),
              !.counts[evt.Severity] = @ + 1]

\* Mutant of TrimHidden: the keys are kept as they are.
TrimHiddenKeepKeys(hidden, trim) == hidden

\* consumeLog on a trim: the keys below trim are dropped, the others move
\* down by trim.
TrimHidden(hidden, trim) == {idx - trim : idx \in {h \in hidden : h >= trim}}

\* consumeLog on a trim: a selection moves down by trim and stops at 0.
TrimSelection(selectedIndex, trim) ==
    IF selectedIndex >= 0
    THEN (IF selectedIndex - trim < 0 THEN 0 ELSE selectedIndex - trim)
    ELSE selectedIndex

\* consumeLog: no selection without visible lines; the last visible line
\* when following or when nothing was selected.
FollowSelection(m) ==
    LET visibleLines == getVisibleLines(m)
    IN IF Len(visibleLines) = 0 THEN 0 - 1
       ELSE IF m.follow \/ m.selectedIndex = 0 - 1 THEN Len(visibleLines) - 1
       ELSE m.selectedIndex

\* consumeLog: the model and the command it returns.
consumeLog(m, evt) ==
    IF evt.Err # NilErr
    THEN [m |-> [m EXCEPT !.notification = <<evt.Err>>], cmd |-> listen(m)]
    ELSE LET dl == [Severity |-> evt.Severity, RuleName |-> evt.RuleName,
                    Text |-> evt.Line, Index |-> Len(m.lines)]
             trim == IF Len(m.lines) + 1 > m.scrollback
                         THEN Len(m.lines) + 1 - m.scrollback ELSE 0
             m0 == Accumulate(m, evt, dl)
             mt == IF trim > 0
                       THEN [m0 EXCEPT !.hiddenIndices = TrimHidden(@, trim),
                                       !.selectedIndex = TrimSelection(@, trim)]
                       ELSE m0
             m1 == [mt EXCEPT !.selectedIndex = FollowSelection(mt)]
             m2 == IF evt.RuleName # ""
                       THEN [m1 EXCEPT !.notification = <<evt.Severity, evt.RuleName>>]
                       ELSE m1
             m3 == IF ~m2.paused
                       THEN [m2 EXCEPT !.viewport = renderLogContent(m2)]
                       ELSE m2
         IN [m |-> m3, cmd |-> listen(m3)]

\* Mutant of moveSelection: a move that stays where it is ends following too.
moveSelectionUnfollow(m, delta) ==
    LET visibleLines == getVisibleLines(m)
    IN IF Len(visibleLines) = 0 THEN [m EXCEPT !.selectedIndex = 0 - 1]
       ELSE LET sel == IF m.selectedIndex < 0
                           THEN Len(visibleLines) - 1 ELSE m.selectedIndex
                t0 == sel + delta
                t1 == IF t0 < 0 THEN 0 ELSE t0
                target == IF t1 >= Len(visibleLines)
                              THEN Len(visibleLines) - 1 ELSE t1
                m1 == [m EXCEPT !.selectedIndex = target, !.follow = FALSE]
            IN [m1 EXCEPT !.viewport = renderLogContent(m1)]

\* moveSelection: without visible lines there is no selection; a missing
\* selection counts as the last visible line; the target is kept inside the
\* visible lines, and reaching another index ends following.
moveSelection(m, delta) ==
    LET visibleLines == getVisibleLines(m)
    IN IF Len(visibleLines) = 0 THEN [m EXCEPT !.selectedIndex = 0 - 1]
       ELSE LET sel == IF m.selectedIndex < 0
                           THEN Len(visibleLines) - 1 ELSE m.selectedIndex
                t0 == sel + delta
                t1 == IF t0 < 0 THEN 0 ELSE t0
                target == IF t1 >= Len(visibleLines)
                              THEN Len(visibleLines) - 1 ELSE t1
            IN IF target = sel THEN [m EXCEPT !.selectedIndex = sel]
               ELSE LET m1 == [m EXCEPT !.selectedIndex = target,
                                        !.follow = FALSE]
                    IN [m1 EXCEPT !.viewport = renderLogContent(m1)]

\* pageSelection: a move by whole viewport heights, a height of at least 1.
pageSelection(m, pages, height) ==
    IF pages = 0 THEN m
    ELSE moveSelection(m, pages * (IF height <= 1 THEN 1 ELSE height))

\* selectedLine: the visible line at the selection, if there is one.
selectedLine(m) ==
    LET visibleLines == getVisibleLines(m)
    IN IF m.selectedIndex < 0 \/ m.selectedIndex >= Len(visibleLines)
       THEN [line |-> NoLine, ok |-> FALSE]
       ELSE [line |-> visibleLines[m.selectedIndex + 1], ok |-> TRUE]

\* Mutant of refreshVisibleState: the selection is left where it was.
refreshVisibleStateKeep(m) == [m EXCEPT !.viewport = renderLogContent(m)]

\* refreshVisibleState: the selection is brought back inside the visible
\* lines and the viewport rendered anew.
refreshVisibleState(m) ==
    LET visibleLines == getVisibleLines(m)
        m1 == IF Len(visibleLines) = 0 THEN [m EXCEPT !.selectedIndex = 0 - 1]
              ELSE IF m.selectedIndex >= Len(visibleLines)
                  THEN [m EXCEPT !.selectedIndex = Len(visibleLines) - 1]
              ELSE m
    IN [m1 EXCEPT !.viewport = renderLogContent(m1)]

\* hideCurrentLine: the index of the selected line joins the hidden ones.
hideCurrentLine(m) ==
    LET sl == selectedLine(m)
    IN IF ~sl.ok THEN m
       ELSE refreshVisibleState(
                [m EXCEPT !.hiddenIndices = @ \cup {sl.line.Index},
                          !.notification = <<"Hidden 1 line">>])

\* filterCurrentRule: the rule of the selected line joins the filtered ones.
filterCurrentRule(m) ==
    LET sl == selectedLine(m)
    IN IF ~sl.ok \/ sl.line.RuleName = "" THEN m
       ELSE refreshVisibleState(
                [m EXCEPT !.filteredRules = @ \cup {sl.line.RuleName},
                          !.notification = <<"Filtered rule", sl.line.RuleName>>])

\* resetFilters: no rule is filtered and no line hidden any more.
resetFilters(m) ==
    refreshVisibleState([m EXCEPT !.filteredRules = {}, !.hiddenIndices = {},
                                  !.notification = <<"Reset filters">>])

\* openDetail: the modal opens on the selected line, if there is one.
openDetail(m) ==
    LET sl == selectedLine(m)
    IN IF m.detailOpen \/ ~sl.ok THEN m
       ELSE [m EXCEPT !.detailLine = sl.line, !.detailOpen = TRUE]

closeDetail(m) == [m EXCEPT !.detailOpen = FALSE, !.detailLine = NoLine]

openHelp(m) == IF m.helpOpen THEN m ELSE [m EXCEPT !.helpOpen = TRUE]

\* The keys pressed on the log list and in the modals; "t" stands for the
\* keys that change what is drawn only. The pause key is pressed in SpecUi.
Keys ==
    {"q", "ctrl+c", "esc", "enter", "?", "up", "down", "pgup", "pgdown",
     "h", "x", "r", "f", "y", "t"}

\* viewport.New(80, 24): the height of the viewport before any resize.
ViewportHeight == 24

\* The heights a layout gives the viewport: a single row, a few rows, the
\* initial height.
Heights == {1, MaxHeight, ViewportHeight}

\* The heights to tell apart for a key: only paging reads the height.
KeyHeights(key) ==
    IF key \in {"pgup", "pgdown"} THEN Heights ELSE {ViewportHeight}

\* Update(KeyMsg) while the help modal is open.
HelpKey(m, key) ==
    IF key \in {"q", "esc", "enter", "?"} THEN [m EXCEPT !.helpOpen = FALSE]
    ELSE m

\* Update(KeyMsg) while the detail modal is open.
DetailKey(m, key) ==
    IF key \in {"enter", "esc", "q"} THEN closeDetail(m) ELSE m

\* Update(KeyMsg) with no modal open; height is the viewport's height.
ListKey(m, key, height) ==
    CASE key \in {"ctrl+c", "q"} -> [m EXCEPT !.pc = "quit"]
      [] key = "?" -> openHelp(m)
      [] key = "up" -> moveSelection(m, 0 - 1)
      [] key = "down" -> moveSelection(m, 1)
      [] key = "pgup" -> pageSelection(m, 0 - 1, height)
      [] key = "pgdown" -> pageSelection(m, 1, height)
      [] key = "enter" -> openDetail(m)
      [] key = "h" -> hideCurrentLine(m)
      [] key = "x" -> filterCurrentRule(m)
      [] key = "r" -> resetFilters(m)
      [] key = "p" ->
           IF m.paused
               THEN [m EXCEPT !.paused = FALSE, !.viewport = renderLogContent(m)]
               ELSE [m EXCEPT !.paused = TRUE]
      [] key = "f" -> [m EXCEPT !.follow = ~m.follow]
      [] OTHER -> m

\* Mutant of UpdateKey: an open modal does not take the keys.
UpdateKeyPastModal(m, key, height) == ListKey(m, key, height)

\* Update(KeyMsg): the help modal takes the key if open, else the detail
\* modal if open, else the log list.
UpdateKey(m, key, height) ==
    IF m.helpOpen THEN HelpKey(m, key)
    ELSE IF m.detailOpen THEN DetailKey(m, key)
    ELSE ListKey(m, key, height)

UiInit ==
    /\ HlIdle
    /\ RmIdle
    /\ PpIdle
    /\ TfIdle
    /\ ctl = Unused
    /\ swap = Unused
    /\ mem = Unused
    /\ \E cfg \in Scrollbacks : ui = NewModel(cfg)

\* The command of listen receives an event: a logMsg is on its way to Update.
UiListen ==
    /\ ui.pc = "listen"
    /\ ui.received < MaxEvents
    /\ \E kind \in UiEventKinds :
          ui' = [ui EXCEPT !.pc = "update", !.received = @ + 1,
                           !.msg = UiEvent(kind, ui.received + 1)]
    /\ UNCHANGED <<hlVars, rmVars, ppVars, tfVars, ctl, swap, mem>>

\* The command of listen finds the stream closed: Update(streamClosedMsg).
UiStreamClosed ==
    /\ ui.pc = "listen"
    /\ ui' = [ui EXCEPT !.pc = "closed", !.notification = <<"stream closed">>]
    /\ UNCHANGED <<hlVars, rmVars, ppVars, tfVars, ctl, swap, mem>>

\* Update(logMsg): consumeLog, and the command it returns is run.
UiConsume ==
    /\ ui.pc = "update"
    /\ LET r == consumeLog(ui, ui.msg)
       IN ui' = [r.m EXCEPT !.pc = r.cmd, !.msg = NoMsg]
    /\ UNCHANGED <<hlVars, rmVars, ppVars, tfVars, ctl, swap, mem>>

\* Update(KeyMsg "p"): pause is switched; leaving it refreshes the viewport.
UiKeyPause ==
    /\ ui.pc # "quit"
    /\ ui' = UpdateKey(ui, "p", ViewportHeight)
    /\ UNCHANGED <<hlVars, rmVars, ppVars, tfVars, ctl, swap, mem>>

\* Update(WindowSizeMsg): the viewport is rendered anew.
UiResize ==
    /\ ui.pc # "quit"
    /\ ui.viewport # renderLogContent(ui)
    /\ ui' = [ui EXCEPT !.viewport = renderLogContent(ui)]
    /\ UNCHANGED <<hlVars, rmVars, ppVars, tfVars, ctl, swap, mem>>

UiNext ==
    \/ UiListen
    \/ UiStreamClosed
    \/ UiConsume
    \/ UiKeyPause
    \/ UiResize

SpecUi == UiInit /\ [][UiNext]_vars

\* The model with the keys of the log list and of the modals, for
\* scrollbacks small enough to be exceeded, while the stream is open.
NavScrollbacks == 1..MaxNavScrollback

NavInit ==
    /\ HlIdle
    /\ RmIdle
    /\ PpIdle
    /\ TfIdle
    /\ ctl = Unused
    /\ swap = Unused
    /\ mem = Unused
    /\ \E cfg \in NavScrollbacks : ui = NewModel(cfg)

\* The model after the command of listen has received an event of the kind
\* and Update(logMsg) has consumed it and issued the command it returns.
UpdateLog(m, kind) ==
    LET r == consumeLog(m, UiEvent(kind, m.received + 1))
    IN [r.m EXCEPT !.pc = r.cmd, !.msg = NoMsg, !.received = @ + 1]

\* The command of listen receives an event and Update(logMsg) consumes it,
\* before any later message is handled.
NavLog ==
    /\ ui.pc = "listen"
    /\ ui.received < MaxNavEvents
    /\ \E kind \in UiEventKinds : ui' = UpdateLog(ui, kind)
    /\ UNCHANGED <<hlVars, rmVars, ppVars, tfVars, ctl, swap, mem>>

\* Update(KeyMsg).
UiKey ==
    /\ ui.pc # "quit"
    /\ \E key \in Keys :
          \E height \in KeyHeights(key) : ui' = UpdateKey(ui, key, height)
    /\ UNCHANGED <<hlVars, rmVars, ppVars, tfVars, ctl, swap, mem>>

NavNext ==
    \/ NavLog
    \/ UiKey

SpecNav == NavInit /\ [][NavNext]_vars

\* -------------------------------------------------------------- properties

\* pat occurs somewhere in line.
Occurs(pat, line) == \E i \in 0..Len(line) : MatchEndAt(pat, line, i) >= 0

\* The positions in rs of the rules whose pattern occurs in line.
Matching(rs, line) == {k \in 1..Len(rs) : Occurs(rs[k].Pattern, line)}

\* a comes before b in (severity rank, declaration index) order.
Before(a, b) ==
    \/ SeverityRank(a.Severity) < SeverityRank(b.Severity)
    \/ SeverityRank(a.Severity) = SeverityRank(b.Severity) /\ a.order < b.order

\* C3: Match returns the rule that is first in (severity rank, declaration
\* index) order among the rules whose pattern occurs in the line, and no match
\* exactly when no rule's pattern occurs in it.
C3_MatchFirstByRank ==
    rmPc = "matched" =>
        LET m == Matching(rmRules, rmLine)
        IN /\ rmResult.matched <=> m # {}
           /\ rmResult.matched =>
                \E k \in m :
                    /\ rmResult.Rule = rmRules[k]
                    /\ \A j \in m \ {k} : Before(rmRules[k], rmRules[j])

\* A more urgent rule has won over a matching, less urgent rule declared earlier.
C3_Witness ==
    /\ rmPc = "matched"
    /\ rmResult.matched
    /\ \E j \in Matching(rmRules, rmLine) :
        /\ rmRules[j].order < rmResult.Rule.order
        /\ SeverityRank(rmRules[j].Severity) > SeverityRank(rmResult.Rule.Severity)

\* C4: among the matching rules of the winner's severity the winner is the one
\* declared earliest in the list given to Compile, also after FilterByTags,
\* which keeps the declaration order of the rules it retains.
C4_TieByDeclaration ==
    /\ \A i, j \in 1..Len(rmRules) : i < j => rmRules[i].order < rmRules[j].order
    /\ \A i \in 1..Len(rmRules) :
          rmRules[i] = CompileRule(rmDefs[rmRules[i].order + 1], rmRules[i].order)
    /\ (rmPc = "matched" /\ rmResult.matched) =>
          \A k \in Matching(rmRules, rmLine) :
              rmRules[k].Severity = rmResult.Rule.Severity
                  => rmResult.Rule.order <= rmRules[k].order

\* After a FilterByTags that selected by tag, two matching rules of one
\* severity competed.
C4_Witness ==
    /\ rmPc = "matched"
    /\ rmFiltered
    /\ rmTags = <<"ssh">>
    /\ rmResult.matched
    /\ \E k \in Matching(rmRules, rmLine) :
        /\ rmRules[k].Severity = rmResult.Rule.Severity
        /\ rmRules[k].order > rmResult.Rule.order

\* C5: an event that carries an error yields exactly one HighlightedEvent with
\* the same path and error, whatever showAll and minSeverity are.
C5_ErrorAlwaysEmitted ==
    (ppPc = "processed" /\ ppEvt.Err # NilErr) =>
        /\ Len(ppOut) = 1
        /\ ppOut[1].Path = ppEvt.Path
        /\ ppOut[1].Err = ppEvt.Err

\* An error event was processed under the strictest filter.
C5_Witness ==
    /\ ppPc = "processed"
    /\ ppEvt.Err = ReadErr
    /\ ~ppStream.showAll
    /\ ppStream.minSeverity = SeverityCritical
    /\ Len(ppStream.rules) > 0
    /\ Len(ppOut) = 1

\* The numeric ranks the claim names: critical = 0 .. normal = 4.
ClaimRank(sev) ==
    CASE sev = "critical" -> 0
      [] sev = "high" -> 1
      [] sev = "medium" -> 2
      [] sev = "low" -> 3
      [] sev = "normal" -> 4

\* C6: a line some rule matches is dropped exactly when showAll is false and
\* the winning rule's rank is greater than the minimum severity's rank;
\* otherwise one event is sent, with that rule's name, severity, color and
\* tags and the fragments built from the match spans.
C6_MatchedFilter ==
    (ppPc = "processed" /\ ppEvt.Err = NilErr
        /\ Matching(ppStream.rules, ppEvt.Line) # {}) =>
        LET m == Match(ppStream.rules, ppEvt.Line)
            drop == ~ppStream.showAll
                    /\ ClaimRank(m.Rule.Severity) > ClaimRank(ppStream.minSeverity)
        IN /\ drop <=> ppOut = <<>>
           /\ ~drop =>
                /\ Len(ppOut) = 1
                /\ ppOut[1].Path = ppEvt.Path
                /\ ppOut[1].Line = ppEvt.Line
                /\ ppOut[1].RuleName = m.Rule.Name
                /\ ppOut[1].Severity = m.Rule.Severity
                /\ ppOut[1].Color = m.Rule.Color
                /\ ppOut[1].Tags = m.Rule.Tags
                /\ ppOut[1].Fragments \in BuildFragments(ppEvt.Line, m.HighlightSpans)

\* showAll=false, minSeverity=high, a line matching a rule of severity medium:
\* nothing was sent.
C6_Witness ==
    /\ ppPc = "processed"
    /\ ppEvt.Err = NilErr
    /\ ~ppStream.showAll
    /\ ppStream.minSeverity = SeverityHigh
    /\ Match(ppStream.rules, ppEvt.Line).matched
    /\ Match(ppStream.rules, ppEvt.Line).Rule.Severity = SeverityMedium
    /\ ppOut = <<>>

\* C7: a line no rule matches yields nothing when showAll is false, and when
\* showAll is true one event with empty rule name, severity normal and one
\* plain fragment holding the whole line.
C7_UnmatchedFilter ==
    (ppPc = "processed" /\ ppEvt.Err = NilErr
        /\ Matching(ppStream.rules, ppEvt.Line) = {}) =>
        /\ ~ppStream.showAll => ppOut = <<>>
        /\ ppStream.showAll =>
            /\ Len(ppOut) = 1
            /\ ppOut[1].Path = ppEvt.Path
            /\ ppOut[1].Line = ppEvt.Line
            /\ ppOut[1].RuleName = ""
            /\ ppOut[1].Severity = SeverityNormal
            /\ ppOut[1].Fragments = <<[Text |-> ppEvt.Line, Emphasized |-> FALSE]>>

\* showAll=true, rules present, and a non-empty line none of them matches.
C7_Witness ==
    /\ ppPc = "processed"
    /\ ppEvt.Err = NilErr
    /\ ppStream.showAll
    /\ Len(ppStream.rules) > 0
    /\ Len(ppEvt.Line) > 0
    /\ Matching(ppStream.rules, ppEvt.Line) = {}
    /\ Len(ppOut) = 1

\* The tail lines of path p that its goroutine has handed to the pipeline:
\* all it has read, but the one it is still sending.
HandedLines(p) ==
    SubSeq(tailLog[p], 1, Len(tailLog[p]) - (IF srcPc[p] = "send" THEN 1 ELSE 0))

\* The severity/show-all rule, as the claims state it, on a tail line.
ClaimDrops(line) ==
    /\ line.Err = NilErr
    /\ ~stream.showAll
    /\ \/ Matching(stream.rules, line.Text) = {}
       \/ ClaimRank(Match(stream.rules, line.Text).Rule.Severity)
             > ClaimRank(stream.minSeverity)

ClaimKeeps(line) == ~ClaimDrops(line)

\* The events sent for path p so far: those delivered, and the one being sent.
SentFor(p) ==
    SelectSeq(IF pipePc = "send" THEN Append(delivered, pipeEvt) ELSE delivered,
              LAMBDA e : e.Path = p)

\* C8: nothing is lost outside the severity/show-all filter: every event a
\* source has handed over was received by the stage, the stage has dropped
\* exactly the events the filter rule drops, and every other one is delivered
\* or being sent; with showAll nothing is dropped, and once nothing is in
\* flight the consumer has as many events as the sources have read.
C8_OnlyFilterDrops ==
    /\ received = SumOver([p \in Paths |-> Len(HandedLines(p))], Paths)
    /\ dropped = SumOver([p \in Paths |->
                            Len(SelectSeq(HandedLines(p), ClaimDrops))], Paths)
    /\ received = dropped + Len(delivered) + (IF pipePc = "send" THEN 1 ELSE 0)
    /\ stream.showAll =>
        /\ dropped = 0
        /\ (pipePc # "send" /\ \A p \in Paths : srcPc[p] # "send")
              => Len(delivered) = TotalReads

\* Without cancellation, every line read has gone through: some dropped by
\* the filter, some delivered.
C8_Witness ==
    /\ ~cancelled
    /\ ~stream.showAll
    /\ received = MaxReads
    /\ pipePc = "select"
    /\ dropped >= 1
    /\ Len(delivered) >= 1
    /\ \E i \in 1..Len(delivered) : delivered[i].Err # NilErr

\* C9: for every path, the events sent for it are, in order, the lines its
\* source handed over in file order, less those the filter drops.
C9_PerPathOrder ==
    \A p \in Paths :
        LET sent == SentFor(p)
            kept == SelectSeq(HandedLines(p), ClaimKeeps)
        IN /\ Len(sent) = Len(kept)
           /\ \A i \in 1..Len(sent) :
                /\ sent[i].Line = kept[i].Text
                /\ sent[i].Err = kept[i].Err

\* Two different events of one path were delivered around an event of the
\* other path.
C9_Witness ==
    /\ Len(delivered) >= 3
    /\ delivered[1].Path = delivered[3].Path
    /\ delivered[1].Path # delivered[2].Path
    /\ delivered[1].Line # delivered[3].Line

\* C10: the channel TailFiles returns is closed at most once, by the closing
\* goroutine and only when every source goroutine has exited, so that no
\* source is sending or can still send on it once it is closed.
C10_ClosedOnceAfterSources ==
    /\ tfOutClosed <= 1
    /\ wg >= 0
    /\ (closerPc = "done") <=> (tfOutClosed = 1)
    /\ tfOutClosed >= 1 => \A p \in Paths : srcPc[p] = "done"

\* The channel is closed after one source left on cancellation and another
\* because its tail had stopped, and events had passed.
C10_Witness ==
    /\ tfOutClosed = 1
    /\ received >= 1
    /\ cancelled
    /\ \E p, q \in Paths : linesClosed[p] /\ ~linesClosed[q]

\* C11: once the cancellation signal is given, every source goroutine
\* eventually releases its handle and exits and the channel TailFiles returned
\* is eventually closed, whatever Connect and the consumer do. For finite
\* runs: after the signal, the goroutines and the consumer never all come to
\* a halt while a source has not exited or the channel is not closed.
C11_CancelStopsSources ==
    cancelled =>
        \/ /\ \A p \in Paths : srcPc[p] = "done" /\ cleanups[p] = 1
           /\ tfOutClosed = 1
        \/ ENABLED (GoroutineStep \/ Consume)

\* C12: after the cancellation signal, or once the input channel is closed,
\* the goroutine of Connect eventually returns and has closed its output
\* channel exactly once, whether or not the consumer still receives. For
\* finite runs: with a consumer that receives no more, the goroutines never
\* all come to a halt while the goroutine of Connect has not returned.
C12_StageTerminates ==
    (cancelled \/ tfOutClosed = 1) =>
        \/ pipePc = "done" /\ cnOutClosed = 1
        \/ ENABLED GoroutineStep

\* The error events among evts, and the erroneous lines among tail lines.
IsErrEvent(e) == e.Err # NilErr

\* C13: a read error does not end a source: it is handed over as a LogEvent
\* with the path of the source and the error, a source leaves its loop only on
\* cancellation or when its line channel is closed, and the events sent for a
\* path hold its errors with the lines read before and after them, in order.
C13_ReadErrorForwarded ==
    \A p \in Paths :
        /\ srcPc[p] = "send" =>
              LET line == tailLog[p][Len(tailLog[p])]
              IN /\ srcEvt[p].Path = p
                 /\ srcEvt[p].Err = line.Err
                 /\ srcEvt[p].Line = (IF line.Err # NilErr THEN <<>> ELSE line.Text)
        /\ srcPc[p] \in {"deferred", "done"} => cancelled \/ linesClosed[p]
        /\ LET sentErrs == SelectSeq(SentFor(p), IsErrEvent)
               readErrs == SelectSeq(HandedLines(p), IsErrEvent)
           IN /\ Len(sentErrs) = Len(readErrs)
              /\ \A i \in 1..Len(sentErrs) : sentErrs[i].Err = readErrs[i].Err
        /\ stream.showAll =>
              /\ Len(SentFor(p)) = Len(HandedLines(p))
              /\ \A i \in 1..Len(HandedLines(p)) :
                    /\ SentFor(p)[i].Err = HandedLines(p)[i].Err
                    /\ HandedLines(p)[i].Err = NilErr
                          => SentFor(p)[i].Line = HandedLines(p)[i].Text

\* The consumer got a read error of a path and, later, a line of that path.
C13_Witness ==
    \E i, j \in 1..Len(delivered) :
        /\ i < j
        /\ delivered[i].Path = delivered[j].Path
        /\ delivered[i].Err = ReadErr
        /\ delivered[j].Err = NilErr
        /\ Len(delivered[j].Line) > 0

\* The sources whose handle has been released.
Released == {p \in Paths : cleanups[p] = 1}

\* C14: every source goroutine calls Cleanup exactly once, on either way out
\* of its loop, and before it is counted as complete: the sources counted
\* complete are among the released ones, and the channel is closed only when
\* every handle has been released.
C14_CleanupOnceBeforeDone ==
    /\ \A p \in Paths :
          /\ cleanups[p] <= 1
          /\ srcPc[p] \in {"select", "send"} => cleanups[p] = 0
          /\ srcPc[p] = "done" => cleanups[p] = 1
    /\ Cardinality(Paths) - wg <= Cardinality(Released)
    /\ Cardinality(Paths) - wg = Cardinality({p \in Paths : srcPc[p] = "done"})
    /\ tfOutClosed >= 1 => Released = Paths

\* One source left because its line channel was closed and is counted
\* complete; another has released its handle on cancellation and is not
\* counted yet.
C14_Witness ==
    \E p, q \in Paths :
        /\ srcPc[p] = "deferred" /\ cleanups[p] = 1 /\ ~linesClosed[p] /\ cancelled
        /\ srcPc[q] = "done" /\ cleanups[q] = 1 /\ linesClosed[q]
        /\ wg = 1
        /\ tfOutClosed = 0

\* The sources that hold a line they have read and not handed over.
Sending == {p \in Paths : srcPc[p] = "send"}

\* C15: nothing is buffered: every line read and not yet received by the
\* stage is held by a sending source, one each; the stage holds at most one
\* event; at most number-of-sources + 1 events are in flight; and while the
\* stage waits for the consumer a sending source can take no step.
C15_Unbuffered ==
    /\ TotalReads - received <= Cardinality(Sending)
    /\ received - dropped - Len(delivered) = (IF pipePc = "send" THEN 1 ELSE 0)
    /\ TotalReads - dropped - Len(delivered) <= Cardinality(Paths) + 1
    /\ pipePc = "send" =>
          \A p \in Sending :
              ~ENABLED (SrcRecv(p) \/ Handoff(p) \/ SrcCancel(p) \/ SrcLinesClosed(p))

\* The consumer has received nothing: every source holds a line and the
\* stage holds an event, and no goroutine can take a step.
C15_Witness ==
    /\ delivered = <<>>
    /\ dropped = 0
    /\ pipePc = "send"
    /\ Sending = Paths
    /\ TotalReads = Cardinality(Paths) + 1
    /\ ~ENABLED GoroutineStep

\* The positions of tfFiles whose file does not exist.
Missing == {i \in 1..Len(tfFiles) : tfFiles[i] \notin tfExists}

\* C16: TailFiles decides at the call: with an empty file list, or with a
\* file that does not exist, it returns an error (naming a missing file of the
\* list) and no channel; otherwise it returns the channel and no error.
C16_StartRejected ==
    tfPc \in {"returned", "error"} =>
        IF Len(tfFiles) = 0
        THEN tfPc = "error" /\ tfRet = "nil" /\ tfErr # NoError
        ELSE IF Missing # {}
             THEN /\ tfPc = "error"
                  /\ tfRet = "nil"
                  /\ tfErr # NoError
                  /\ \E i \in Missing : tfErr.file = tfFiles[i]
             ELSE tfPc = "returned" /\ tfRet = "out" /\ tfErr = NoError

\* The second of two files is missing: the call was rejected naming it, after
\* the first file had been opened.
C16_Witness ==
    /\ tfPc = "error"
    /\ Len(tfFiles) = 2
    /\ Missing = {2}
    /\ tfErr.file = tfFiles[2]
    /\ tfRet = "nil"

\* The positions of the definitions Compile cannot take: an empty pattern, or
\* one that is no valid expression.
BadDefs(defs) ==
    {i \in 1..Len(defs) : defs[i].Pattern.text = <<>> \/ defs[i].Pattern.kind = "bad"}

\* C17: if a definition has an empty or invalid pattern, Compile returns an
\* error naming that rule (the first such) and an empty RuleSet, never the
\* rules before it; otherwise it returns one rule per definition and no error.
C17_CompileAllOrNothing ==
    rmPc \in {"compiled", "failed"} =>
        LET bad == BadDefs(rmDefs)
        IN IF bad # {}
           THEN /\ rmPc = "failed"
                /\ ~rmCompiled.ok
                /\ rmCompiled.Rules = <<>>
                /\ rmRules = <<>>
                /\ \E i \in bad : /\ rmCompiled.errName = rmDefs[i].Name
                                  /\ \A j \in bad : i <= j
           ELSE /\ rmPc = "compiled"
                /\ rmCompiled.ok
                /\ rmCompiled.errName = ""
                /\ Len(rmRules) = Len(rmDefs)

\* A valid definition came before the bad one: nothing of it was returned.
C17_Witness ==
    /\ rmPc = "failed"
    /\ Len(rmDefs) = 2
    /\ BadDefs(rmDefs) = {2}
    /\ rmCompiled.errName = rmDefs[2].Name
    /\ rmRules = <<>>

\* The severity the claim gives a severity string: a recognised one whatever
\* its case, medium for an empty or unknown one.
ClaimSeverity(s) ==
    CASE s \in {"critical", "Critical"} -> "critical"
      [] s \in {"high", "HIGH"} -> "high"
      [] s = "medium" -> "medium"
      [] s = "low" -> "low"
      [] s = "normal" -> "normal"
      [] OTHER -> "medium"

\* C18: after a successful Compile, rule i is definition i (name, pattern,
\* color, tags) with declaration index i counted from 0, and its severity is
\* one of the five: the recognised severity the string spells in any case,
\* medium for an empty or unknown string.
C18_RulesFollowDefinitions ==
    rmPc = "compiled" =>
        /\ Len(rmRules) = Len(rmDefs)
        /\ \A i \in 1..Len(rmRules) :
              /\ rmRules[i].Name = rmDefs[i].Name
              /\ rmRules[i].Pattern = rmDefs[i].Pattern
              /\ rmRules[i].Color = rmDefs[i].Color
              /\ rmRules[i].Tags = rmDefs[i].Tags
              /\ rmRules[i].order = i - 1
              /\ rmRules[i].Severity \in {"critical", "high", "medium", "low", "normal"}
              /\ rmRules[i].Severity = ClaimSeverity(rmDefs[i].Severity)

\* An upper-case severity was recognised and an unknown one became medium.
C18_Witness ==
    /\ rmPc = "compiled"
    /\ Len(rmDefs) = 2
    /\ rmDefs[1].Severity = "HIGH" /\ rmRules[1].Severity = "high"
    /\ rmDefs[2].Severity = "bogus" /\ rmRules[2].Severity = "medium"

\* Strings that differ at most in the case of their letters.
CaseClasses == {{"SSH", "ssh"}, {"Net", "net"}}
SameFold(a, b) == a = b \/ \E c \in CaseClasses : {a, b} \subseteq c

\* An empty or whitespace-only string.
Blank(s) == s \in {"", " "}

\* C19: FilterByTags(tags) returns the full rule set when every entry of tags
\* is blank (empty or whitespace-only; also when tags is empty), and otherwise
\* exactly the rules with a tag equal, up to case, to a member of tags.
C19_FilterByTags ==
    rmFiltered =>
        LET full == rmCompiled.Rules
            wanted(rule) ==
                \E k \in 1..Len(rule.Tags), j \in 1..Len(rmTags) :
                    SameFold(rule.Tags[k], rmTags[j])
        IN IF \A j \in 1..Len(rmTags) : Blank(rmTags[j])
           THEN rmRules = full
           ELSE rmRules = SelectSeq(full, wanted)

\* The orders in which the rules of rs can be stored.
StoredOrders(rs) ==
    {[i \in 1..Len(rs) |-> rs[f[i]]] :
        f \in {g \in [1..Len(rs) -> 1..Len(rs)] :
                  \A i, j \in 1..Len(rs) : i # j => g[i] # g[j]}}

\* C20: the evaluation order is a total order that only the rules decide:
\* sorting the RuleSet again gives the same sequence, sorting the sorted
\* sequence leaves it as it is, every two rules of it are strictly ordered by
\* (severity rank, declaration index), and every stored order of the same
\* rules sorts to it.
C20_SortDeterministic ==
    rmPc = "sorted" =>
        /\ sortedRules(rmRules) = rmSorted
        /\ sortedRules(rmSorted) = rmSorted
        /\ \A i, j \in 1..Len(rmSorted) : i < j => Before(rmSorted[i], rmSorted[j])
        /\ rmSorted \in StoredOrders(rmRules)
        /\ \A stored \in StoredOrders(rmRules) : sortedRules(stored) = rmSorted

\* A more urgent rule was declared after a less urgent one: the sort put it
\* first.
C20_Witness ==
    /\ rmPc = "sorted"
    /\ Len(rmRules) = 2
    /\ rmSorted = <<rmRules[2], rmRules[1]>>

\* The handles of the map m.
MapHandles(m) == {m[p] : p \in CtlPaths} \ {NoHandle}

\* The source with handle h runs and was never told to stop.
Untouched(h) ==
    /\ ctl.handles[h].st # "released"
    /\ ~ctl.handles[h].cancelled
    /\ ctl.handles[h].stops = 0

\* The paths the last apply call added, removed and left alone.
ClaimAdded == ctl.target \ ctl.beforeSel
ClaimRemoved == ctl.beforeSel \ ctl.target
ClaimUnaffected == ctl.target \cap ctl.beforeSel

\* C21: apply changes only the difference with the current Selection. From
\* the beginning of the call on, the handle of a path in both Selections is
\* the one it had before, and its source runs without having been told to
\* stop; when the call has returned, every added path whose file exists has
\* one source started by this call, and the source of every removed path is
\* torn down and out of the map.
C21_ApplyDifference ==
    ctl.pc \in {"idle", "applying"} /\ ctl.applies > 0 =>
        /\ \A p \in ClaimUnaffected :
              /\ ctl.sources[p] = ctl.before[p]
              /\ ctl.sources[p] # NoHandle => Untouched(ctl.sources[p])
        /\ ctl.pc = "idle" =>
              /\ \A p \in ClaimAdded \cap ctl.exists :
                    /\ ctl.sources[p] # NoHandle
                    /\ ctl.sources[p] \notin MapHandles(ctl.before)
                    /\ ctl.handles[ctl.sources[p]].path = p
                    /\ Untouched(ctl.sources[p])
              /\ \A p \in ClaimRemoved :
                    /\ ctl.sources[p] = NoHandle
                    /\ ctl.before[p] # NoHandle =>
                          /\ ctl.handles[ctl.before[p]].st = "released"
                          /\ ctl.handles[ctl.before[p]].stops = 1
              /\ \A h \in MapHandles(ctl.sources) \ MapHandles(ctl.before) :
                    ctl.handles[h].path \in ClaimAdded

\* An apply call has returned that added a path, removed a path with a
\* source and left a path with a source in the Selection.
C21_Witness ==
    /\ ctl.pc = "idle"
    /\ \E p \in ClaimUnaffected : ctl.sources[p] # NoHandle
    /\ \E p \in ClaimAdded : ctl.sources[p] # NoHandle
    /\ \E p \in ClaimRemoved : ctl.before[p] # NoHandle

\* C22: when additions of an apply call fail, the call still performs every
\* other addition and every removal, the aggregate error it returns names
\* exactly the added paths whose file is missing, and the sources it started
\* are in the map and run: nothing is rolled back.
C22_PartialFailure ==
    ctl.pc = "idle" /\ ctl.applies > 0 =>
        /\ ctl.err = ClaimAdded \ ctl.exists
        /\ ctl.selection = ctl.target
        /\ ctl.err # {} =>
              /\ \A p \in ClaimAdded \ ctl.err :
                    /\ ctl.sources[p] # NoHandle
                    /\ Untouched(ctl.sources[p])
              /\ \A p \in ClaimRemoved :
                    /\ ctl.sources[p] = NoHandle
                    /\ ctl.before[p] # NoHandle =>
                          ctl.handles[ctl.before[p]].st = "released"
              /\ \A p \in ctl.err : ctl.sources[p] = NoHandle

\* An apply call has returned an error for one path after it started the
\* source of another and removed a third.
C22_Witness ==
    /\ ctl.pc = "idle"
    /\ ctl.err # {}
    /\ \E p \in ClaimAdded \ ctl.err : ctl.sources[p] # NoHandle
    /\ \E p \in ClaimRemoved : ctl.before[p] # NoHandle

\* The handles of the sources started for path p.
HandlesOf(p) == {h \in 1..Len(ctl.handles) : ctl.handles[h].path = p}

\* The paths that are out of the map while no call is being processed.
ClaimGone ==
    IF ctl.pc \in {"idle", "down"}
        THEN {p \in CtlPaths : ctl.sources[p] = NoHandle}
        ELSE {}

Running == {h \in 1..Len(ctl.handles) : ctl.handles[h].st # "released"}

\* C24, amended: under every sequence of apply calls followed by shutdown
\* every started source is torn down exactly once. No source runs without a
\* map entry and none is told to stop twice; while no call is being processed
\* the running sources are exactly the entries of the map, each under its own
\* path and in the Selection; after shutdown the map is empty and every
\* source was torn down once and is released. Inside a call the entry of a
\* removed path outlives its source until the entry is dropped.
C24_ExactlyOnce ==
    /\ Running \subseteq MapHandles(ctl.sources)
    /\ \A h \in 1..Len(ctl.handles) :
          /\ ctl.handles[h].stops <= 1
          /\ ctl.handles[h].st = "released" => ctl.handles[h].stops = 1
          /\ Cardinality({p \in CtlPaths : ctl.sources[p] = h}) <= 1
    /\ ctl.pc \in {"idle", "down"} =>
          /\ MapHandles(ctl.sources) = Running
          /\ \A p \in CtlPaths : ctl.sources[p] # NoHandle =>
                /\ ctl.handles[ctl.sources[p]].path = p
                /\ p \in ctl.selection
    /\ ctl.pc = "down" =>
          /\ Running = {}
          /\ \A h \in 1..Len(ctl.handles) :
                ctl.handles[h].stops = 1 /\ ctl.handles[h].st = "released"

\* After the apply calls and the shutdown: a path was added, removed and
\* added again, and three sources are torn down.
C24_Witness ==
    /\ ctl.pc = "down"
    /\ ctl.applies = MaxApplies + 1
    /\ Len(ctl.handles) >= 3
    /\ \E p \in CtlPaths : Cardinality(HandlesOf(p)) >= 2

\* C24 as stated: in addition, at every moment the running sources are
\* exactly the entries of the map.
C24_AtEveryMoment ==
    /\ C24_ExactlyOnce
    /\ MapHandles(ctl.sources) = Running

\* The RuleSets a line in classification can be entitled to: the one active
\* when the line was taken and those installed since.
ClaimRuleSets ==
    {swap.installed[k] : k \in swap.start..Len(swap.installed)}

\* C25: with setRules running next to the classification, every line is
\* classified against one RuleSet as a whole: the result of a line is the
\* match of the RuleSet active when the line was taken, which is the old or
\* a new one, and every RuleSet is as it was when it was installed.
C25_NoMixing ==
    /\ Len(swap.sets) = Len(swap.installed)
    /\ \A k \in 1..Len(swap.sets) : swap.sets[k] = swap.installed[k]
    /\ swap.pc = "done" =>
          /\ swap.result = Match(swap.installed[swap.start], swap.line)
          /\ swap.result \in {Match(rs, swap.line) : rs \in ClaimRuleSets}

\* A line was classified while setRules, after the first round of the loop,
\* installed a RuleSet under which the line has another result, and the rest
\* of the loop over the new rules would have given a third one.
C25_Witness ==
    /\ swap.pc = "done"
    /\ swap.mid > 1
    /\ LET new == swap.installed[Len(swap.installed)]
           mixed == MatchFrom(sortedRules(new), swap.line, swap.mid)
       IN /\ Match(new, swap.line) # swap.result
          /\ mixed # swap.result
          /\ mixed # Match(new, swap.line)

\* The number of events that consumeLog has counted.
Counted == SumOver(ui.counts, Severities)

\* The step is Update(logMsg) for an event without an error.
ClaimConsumes == ui.pc = "update" /\ ui'.pc # "update" /\ ui.msg.Err = NilErr

\* The lines before the step with the line of the event after them.
ClaimAllLines == Append([i \in 1..Len(ui.lines) |-> ui.lines[i].Text], ui.msg.Line)

\* C26: the UI model never retains more lines than the scrollback limit, which
\* is the configured value or, for a value of 0 or less, 600; each consumed
\* line is retained as the last one, before it come the lines retained
\* before, without the oldest ones where the limit would be exceeded, and
\* nothing else.
C26_Scrollback ==
    /\ [](/\ ui.scrollback = IF ui.cfg <= 0 THEN 600 ELSE ui.cfg
          /\ Len(ui.lines) <= ui.scrollback
          /\ \A i \in 1..Len(ui.lines) : ui.lines[i].Index = i - 1)
    /\ [][ClaimConsumes =>
            LET all == ClaimAllLines
                n == Len(ui'.lines)
            IN /\ n = IF Len(all) > ui.scrollback THEN ui.scrollback ELSE Len(all)
               /\ n >= 1
               /\ \A i \in 1..n : ui'.lines[i].Text = all[Len(all) - n + i]
               /\ ui'.lines[n].Text = ui.msg.Line]_vars

\* More lines were consumed than a scrollback of two retains: the first line
\* is gone, the last two are retained.
C26_Witness ==
    /\ ui.scrollback = 2
    /\ Counted > 2
    /\ Len(ui.lines) = 2
    /\ ui.lines[1].Text > 1

\* The step is Update(logMsg) on a paused model.
ClaimPausedUpdate == ui.pc = "update" /\ ui'.pc # "update" /\ ui.paused

\* C27: pausing freezes only the viewport. Update(logMsg) on a paused model
\* leaves the viewport and the pause as they are and issues the next receive
\* on the event stream; if the event has no error, its line is the last of
\* the retained lines, with its severity and rule name, and its severity
\* alone is counted once more. The receive is never left unissued while the
\* stream is open.
C27_PauseKeepsCollecting ==
    /\ [](ui.pc \in {"listen", "update", "closed"})
    /\ [][ClaimPausedUpdate =>
            /\ ui'.pc = "listen"
            /\ ui'.paused
            /\ ui'.viewport = ui.viewport
            /\ ui.msg.Err = NilErr =>
                  /\ Len(ui'.lines) >= 1
                  /\ LET dl == ui'.lines[Len(ui'.lines)]
                     IN /\ dl.Text = ui.msg.Line
                        /\ dl.Severity = ui.msg.Severity
                        /\ dl.RuleName = ui.msg.RuleName
                  /\ Len(ui'.lines) =
                        IF Len(ui.lines) < ui.scrollback
                            THEN Len(ui.lines) + 1 ELSE ui.scrollback
                  /\ \A s \in Severities :
                        ui'.counts[s] = ui.counts[s]
                                        + IF s = ui.msg.Severity THEN 1 ELSE 0]_vars

\* A paused model has consumed an event: the viewport shows less than the
\* retained lines, whose last one is not in it, and the next receive is issued.
C27_Witness ==
    /\ ui.paused
    /\ ui.pc = "listen"
    /\ Len(ui.lines) >= 1
    /\ ui.viewport # renderLogContent(ui)
    /\ \A i \in 1..Len(ui.viewport) :
          ui.viewport[i] # ui.lines[Len(ui.lines)].Text
    /\ Counted > Len(ui.viewport)

\* A step that the goroutine started for p can take, or that lets it take one.
ClaimSourceStep(p) ==
    \/ SrcCancel(p)
    \/ SrcRecv(p)
    \/ SrcLinesClosed(p)
    \/ SrcDeferred(p)
    \/ TfReceive(p)
    \/ TailStop(p)
    \/ Cancel

\* C28: if TailFiles returns an error because a later file cannot be opened,
\* every goroutine it had started eventually exits and releases its handle.
\* For finite runs: after the error return a started goroutine has exited
\* with its handle released once, or it can still take a step or be
\* cancelled; it never halts for good before its exit.
C28_EarlierSourcesExit ==
    tfPc = "error" =>
        \A p \in Paths :
            \/ srcPc[p] = "none"
            \/ srcPc[p] = "done" /\ cleanups[p] = 1
            \/ ENABLED ClaimSourceStep(p)

\* C29: every HighlightedEvent without an error that the pipeline sends is
\* lossless: the texts of its fragments, put together, are its Line, and its
\* Line is the text of the LogEvent it was made from, whether a rule matched
\* the line or none did.
C29_EventLossless ==
    ppPc = "processed" =>
        \A i \in 1..Len(ppOut) :
            ppOut[i].Err = NilErr =>
                /\ String(ppOut[i].Fragments) = ppOut[i].Line
                /\ ppOut[i].Line = ppEvt.Line
                /\ ppOut[i].Path = ppEvt.Path

\* An event was sent for a line that a rule matches at two places, with
\* plain and emphasized fragments.
C29_Witness ==
    /\ ppPc = "processed"
    /\ Len(ppOut) = 1
    /\ ppOut[1].Err = NilErr
    /\ ppOut[1].RuleName # ""
    /\ Len(ppOut[1].Fragments) >= 2
    /\ Len(Match(ppStream.rules, ppEvt.Line).HighlightSpans) >= 2
    /\ \E k \in 1..Len(ppOut[1].Fragments) : ~ppOut[1].Fragments[k].Emphasized

\* C30: every HighlightedEvent the pipeline sends, the events that carry an
\* error included, has one of the five severities.
C30_SeverityEnum ==
    ppPc = "processed" =>
        \A i \in 1..Len(ppOut) :
            ppOut[i].Severity \in {"critical", "high", "medium", "low", "normal"}

\* C31: Match and FilterByTags never modify the RuleSet they are called on.
\* Whatever calls the goroutines have made and are making, every RuleSet, the
\* filtered ones and those that share their rules with another included, holds
\* the rules it was made with in their stored order, and a call that has
\* returned has the result of Match on those rules.
C31_RuleSetUnchanged ==
    /\ Len(mem.slices) = Len(mem.compiled)
    /\ \A a \in 1..Len(mem.slices) : mem.slices[a] = mem.compiled[a]
    /\ \A g \in Callers :
          mem.calls[g].pc = "returned" =>
              mem.calls[g].result =
                  Match(mem.compiled[mem.sets[mem.calls[g].on]], mem.calls[g].line)

\* Both goroutines are in Match on one RuleSet whose evaluation order is not
\* its stored order, one has sorted, and FilterByTags has returned the
\* RuleSet itself.
C31_Witness ==
    /\ mem.calls[1].pc = "sorted"
    /\ mem.calls[2].pc \in {"copied", "returned"}
    /\ mem.sets[mem.calls[1].on] = mem.sets[mem.calls[2].on]
    /\ mem.calls[1].copyRules # mem.slices[mem.sets[mem.calls[1].on]]
    /\ Len(mem.sets) = 2
    /\ mem.sets[2] = mem.sets[1]

\* pat occurs in line from offset s to offset e.
Occurrence(pat, line, s, e) == s \in 0..Len(line) /\ MatchEndAt(pat, line, s) = e

\* The named captures of the occurrence of pat at offset s, as the claim
\* reads them: the text of the group ch, where the pattern has it.
ClaimCaptures(pat, line, s) ==
    IF pat.kind = "any" THEN {[name |-> "ch", text |-> <<line[s + 1]>>]} ELSE {}

\* C32: for the winning rule Match returns the named captures of the leftmost
\* occurrence of its pattern only, and as highlight spans occurrences of the
\* pattern within the line, in ascending position and without overlap,
\* beginning with the leftmost occurrence and leaving out no occurrence with
\* text that lies clear of them.
C32_CapturesAndSpans ==
    \A g \in Callers :
        (mem.calls[g].pc = "returned" /\ mem.calls[g].result.matched) =>
            LET r == mem.calls[g].result
                pat == r.Rule.Pattern
                line == mem.calls[g].line
                spans == r.HighlightSpans
                first == CHOOSE s \in 0..Len(line) :
                            /\ MatchEndAt(pat, line, s) >= 0
                            /\ \A u \in 0..(s - 1) : MatchEndAt(pat, line, u) < 0
            IN /\ Len(spans) >= 1
               /\ spans[1][1] = first
               /\ r.Captures = ClaimCaptures(pat, line, first)
               /\ \A i \in 1..Len(spans) :
                     /\ 0 <= spans[i][1] /\ spans[i][1] <= spans[i][2]
                     /\ spans[i][2] <= Len(line)
                     /\ Occurrence(pat, line, spans[i][1], spans[i][2])
               /\ \A i \in 1..(Len(spans) - 1) :
                     /\ spans[i][2] <= spans[i + 1][1]
                     /\ spans[i][1] < spans[i + 1][1]
               /\ \A s \in 0..Len(line) :
                     MatchEndAt(pat, line, s) > s =>
                         \E i \in 1..Len(spans) :
                             spans[i][1] < MatchEndAt(pat, line, s) /\ s < spans[i][2]

\* A pattern with a named group occurs twice in the line, with different
\* text: the capture is the text of the first span and not of the second.
C32_Witness ==
    \E g \in Callers :
        /\ mem.calls[g].pc = "returned"
        /\ mem.calls[g].result.matched
        /\ Len(mem.calls[g].result.HighlightSpans) = 2
        /\ mem.calls[g].result.Captures = {[name |-> "ch", text |-> <<"a">>]}
        /\ mem.calls[g].line = <<"a", "b">>

\* C33: what BuildFragments returns never has two adjacent fragments with the
\* same emphasis flag, has no fragment with empty text when spans were given,
\* and without spans is the one plain fragment that holds the whole line.
C33_FragmentsMerged ==
    hlPc = "done" =>
        /\ \A i \in 1..(Len(hlResult) - 1) :
              hlResult[i].Emphasized # hlResult[i + 1].Emphasized
        /\ Len(hlSpans) > 0 => \A i \in 1..Len(hlResult) : hlResult[i].Text # <<>>
        /\ Len(hlSpans) = 0 => hlResult = <<[Text |-> hlLine, Emphasized |-> FALSE]>>

\* Two spans that abut, each of one character, came out as one emphasized
\* fragment.
C33_Witness ==
    /\ hlPc = "done"
    /\ Len(hlSpans) = 2
    /\ hlSorted[1][2] = hlSorted[2][1]
    /\ hlSorted[1][2] - hlSorted[1][1] = 1
    /\ hlSorted[2][2] - hlSorted[2][1] = 1
    /\ hlSorted[1][1] = 0
    /\ hlResult = <<[Text |-> hlLine, Emphasized |-> TRUE]>>

\* The number of visible lines of the model.
ClaimVisible == Len(getVisibleLines(ui))

\* C34: after every Update the selection index is at least -1 and below the
\* number of visible lines, hence -1 when no line is visible, whatever events
\* were consumed and lines trimmed, hidden, filtered, restored or selected.
C34_SelectionInRange ==
    /\ ui.selectedIndex >= 0 - 1
    /\ ui.selectedIndex <= ClaimVisible - 1
    /\ ClaimVisible = 0 => ui.selectedIndex = 0 - 1

\* After a trim, with a line hidden and a rule filtered, the selection is on
\* the last of two visible lines, and following is off.
C34_Witness ==
    /\ ui.received > ui.scrollback
    /\ ui.hiddenIndices # {}
    /\ ui.filteredRules # {}
    /\ ~ui.follow
    /\ ClaimVisible = 2
    /\ ui.selectedIndex = 1

\* The step is Update(logMsg) for an event without error.
ClaimNavConsumes ==
    /\ ui.pc = "listen"
    /\ ui'.received = ui.received + 1
    /\ \E kind \in {"plain", "alert"} : ui' = UpdateLog(ui, kind)

\* The text of line is the text of one of the visible lines of m.
ClaimIsVisible(m, line) ==
    \E i \in 1..Len(getVisibleLines(m)) : getVisibleLines(m)[i].Text = line.Text

\* C35: with auto-follow off, consuming an event leaves the selection on the
\* line it was on, if that line is still retained and visible, also when
\* lines are hidden or filtered and the scrollback is trimmed.
C35_SelectionStaysOnLine ==
    [][(ClaimNavConsumes /\ ~ui.follow /\ selectedLine(ui).ok) =>
          LET line == selectedLine(ui).line
          IN ClaimIsVisible(ui', line) =>
                /\ selectedLine(ui').ok
                /\ selectedLine(ui').line.Text = line.Text]_vars

\* The step is Update(KeyMsg) for a key that moves the selection, pressed
\* with no modal open.
ClaimMoves ==
    /\ ~ui.helpOpen
    /\ ~ui.detailOpen
    /\ ui.pc # "quit"
    /\ ui'.received = ui.received
    /\ \E key \in {"up", "down", "pgup", "pgdown"} :
          \E height \in Heights : ui' = UpdateKey(ui, key, height)

\* C36 as stated: while following, the selection after a consumed event
\* without error is the last visible line; a move that changes the selected
\* index turns following off, a move that leaves the index leaves following.
C36_FollowAndMoves ==
    /\ [][(ClaimNavConsumes /\ ui.follow) =>
             /\ ui'.follow
             /\ ui'.selectedIndex = Len(getVisibleLines(ui')) - 1]_vars
    /\ [][ClaimMoves =>
             /\ ui'.selectedIndex # ui.selectedIndex => ~ui'.follow
             /\ ui'.selectedIndex = ui.selectedIndex => ui'.follow = ui.follow]_vars

\* The index a move starts from: the selected one, the last visible line
\* when nothing is selected.
ClaimMoveStart ==
    IF ui.selectedIndex < 0 THEN Len(getVisibleLines(ui)) - 1 ELSE ui.selectedIndex

\* C36 as amended: while following, the selection after a consumed event
\* without error is the last visible line; a move that ends on another index
\* than it starts from, the last visible line when nothing is selected,
\* turns following off, and a move that ends where it starts leaves following
\* as it is.
C36_FollowUntilMoved ==
    /\ [][(ClaimNavConsumes /\ ui.follow) =>
             /\ ui'.follow
             /\ ui'.selectedIndex = Len(getVisibleLines(ui')) - 1]_vars
    /\ [][ClaimMoves =>
             /\ ui'.selectedIndex # ClaimMoveStart => ~ui'.follow
             /\ ui'.selectedIndex = ClaimMoveStart => ui'.follow = ui.follow]_vars

\* Following was ended by a move off the last of at least two visible lines,
\* after an event had been consumed while following.
C36_Witness ==
    /\ ~ui.follow
    /\ ui.received >= 2
    /\ Len(getVisibleLines(ui)) >= 2
    /\ ui.selectedIndex >= 0
    /\ ui.selectedIndex < Len(getVisibleLines(ui)) - 1

\* The texts of the retained lines of m whose index is in the hidden set.
ClaimHidden(m) ==
    {m.lines[i].Text : i \in {j \in 1..Len(m.lines) : m.lines[j].Index \in m.hiddenIndices}}

\* The texts of the retained lines of m.
ClaimRetained(m) == {m.lines[i].Text : i \in 1..Len(m.lines)}

\* The step is Update(KeyMsg) for key, pressed with no modal open.
ClaimListKey(key) ==
    /\ ~ui.helpOpen
    /\ ~ui.detailOpen
    /\ ui.pc # "quit"
    /\ ui'.received = ui.received
    /\ ui' = UpdateKey(ui, key, ViewportHeight)

\* C37: the hidden lines are the same lines after every step, as far as they
\* are retained, trims and renumbering included, but for the hide action,
\* which adds the selected line, and the reset action, which leaves no line
\* hidden and no rule filtered; every key of the hidden set is the index of a
\* retained line.
C37_HiddenStaysHidden ==
    /\ [](ui.hiddenIndices \subseteq 0..(Len(ui.lines) - 1))
    /\ [][\/ ClaimHidden(ui') = ClaimHidden(ui) \cap ClaimRetained(ui')
          \/ /\ ClaimListKey("h")
             /\ selectedLine(ui).ok
             /\ ClaimHidden(ui') = ClaimHidden(ui) \cup {selectedLine(ui).line.Text}
             /\ ClaimRetained(ui') = ClaimRetained(ui)
          \/ /\ ClaimListKey("r")
             /\ ui'.hiddenIndices = {}
             /\ ui'.filteredRules = {}]_vars

\* A line was hidden, and the lines before it have been cut off since: it is
\* hidden as the first of the retained lines, and a line after it is not.
C37_Witness ==
    /\ ui.received > ui.scrollback
    /\ Len(ui.lines) >= 2
    /\ ui.hiddenIndices = {0}
    /\ ui.lines[1].Text >= 2

\* The keys that dismiss a modal.
ClaimCloseKeys == {"q", "esc", "enter"}

\* What a consumed event or a key of the log list may change.
ClaimListState(m) ==
    <<m.selectedIndex, m.follow, m.hiddenIndices, m.filteredRules, m.paused>>

\* C38: the help modal and the detail modal are never both open. While one
\* of them is open, each of q, esc and enter closes it and changes nothing
\* else; and no step taken while a modal is open quits, opens the other
\* modal, or changes the selection, following, the hidden lines, the filtered
\* rules or the pause, unless it is the Update of a log event.
C38_ModalsTakeKeys ==
    /\ [](/\ ~(ui.helpOpen /\ ui.detailOpen)
          /\ (ui.helpOpen /\ ui.pc # "quit") =>
                \A key \in ClaimCloseKeys : \A height \in Heights :
                    UpdateKey(ui, key, height) = [ui EXCEPT !.helpOpen = FALSE]
          /\ (ui.detailOpen /\ ui.pc # "quit") =>
                \A key \in ClaimCloseKeys : \A height \in Heights :
                    UpdateKey(ui, key, height) =
                        [ui EXCEPT !.detailOpen = FALSE, !.detailLine = NoLine])
    /\ [][(ui.helpOpen \/ ui.detailOpen) =>
             /\ ui'.pc # "quit"
             /\ ui'.helpOpen => ui.helpOpen
             /\ ui'.detailOpen => ui.detailOpen
             /\ ui'.received = ui.received =>
                    ClaimListState(ui') = ClaimListState(ui)]_vars

\* The detail modal is open on a line that was selected by a move, with more
\* than one line visible; the help modal is closed.
C38_Witness ==
    /\ ui.detailOpen
    /\ ~ui.helpOpen
    /\ ~ui.follow
    /\ ui.detailLine.Text >= 1
    /\ Len(getVisibleLines(ui)) >= 2
    /\ ui.pc = "listen"

====
